---- MODULE Spec2Model ----
(***************************************************************************)
(* A model of github.com/MarkRosemaker/gorepo and of the ghrepo package it *)
(* vendors: the default-branch resolver, the service-level repository      *)
(* cache with its prefetch walks, the per-repository metadata editor, the  *)
(* release-binary publishing pipeline, the wrappers that run external      *)
(* commands, and the handles that share the records of the cache.          *)
(*                                                                         *)
(* Each component has its own variables and its own specification          *)
(* (SpecBranch, SpecCache, SpecMeta, SpecPublish, SpecUpload, SpecExec,    *)
(* SpecShare); a specification leaves the variables of the other           *)
(* components at rest.                                                     *)
(*                                                                         *)
(* Conventions.  A Go string that the code takes apart (a reference name,  *)
(* an asset name, a checksum) is a sequence: reference names are sequences *)
(* of their "/"-separated segments, other strings are sequences of         *)
(* one-character strings.  In the resolver, the cache and the metadata     *)
(* editor a Go error is a string naming it and NoErr is the nil error; in  *)
(* the upload and publish components an error is the sequence of the       *)
(* pieces of its message and NilError the nil error; the error of a        *)
(* command wrapper is an ExecError record and NilExec the nil error.  A    *)
(* byte is a number in 0..255.                                             *)
(***************************************************************************)
EXTENDS Integers, Sequences, FiniteSets, TLC

VARIABLES
  \* ---- default-branch resolver (ghrepo/repo.go) ----
  gitrefs,        \* the reference store of the opened git repository
  defaultBranch,  \* r.defaultBranch and the error NewRepository returned for it
  lookup,         \* the store getDefaultBranch read and what it returned
  giterr,         \* the error the last CheckoutDefault, Commit or Pull returned
  \* ---- one Repository handle and its metadata (ghrepo/repo.go) ----
  github,         \* r.github: the cached record of the repository
  remote,         \* the record the hosting service holds
  muGithub,       \* r.muGithub: the goroutine holding it, or Free
  tpc,            \* per goroutine: where it is in its call
  top,            \* per goroutine: the method it called and its arguments
  tres,           \* per goroutine: the outcome its call has produced so far
  last,           \* the call that returned in the step just taken
  \* ---- the service and its repository cache (ghrepo/service.go) ----
  repos,          \* s.repos: owner -> name -> record
  mu,             \* s.mu: the goroutine holding it, or Free
  org,            \* the identifier org that PrefetchUserRepositories names
  ppc,            \* per prefetching goroutine: where it is in its call
  pcall,          \* per prefetching goroutine: the call, [kind, owner]
  ppage,          \* per prefetching goroutine: the local variable page
  plist,          \* per prefetching goroutine: repos and resp.NextPage of the last page
  perr,           \* per prefetching goroutine: the error its call returned
  lpc,            \* per looking-up goroutine: where it is in getRepo
  lkey,           \* per looking-up goroutine: the arguments [owner, name]
  lgot,           \* per looking-up goroutine: what getRepo returned, and when
  \* ---- one call of uploadReleaseAsset (ghrepo/release.go) ----
  apc,            \* where the call is
  ain,            \* its arguments and what the network and the service answer
  anew,           \* what NewUploadRequest returned
  ado,            \* what Do returned
  aout,           \* what uploadReleaseAsset returned
  \* ---- one call of UploadReleaseBinary (ghrepo/release.go) ----
  bpc,            \* where the call is
  bin,            \* the binary: its bytes, info.Name() and the suffix
  btmp,           \* the temporary archive file
  bzw,            \* the zip.Writer on it
  bdefer,         \* the deferred calls of UploadReleaseBinary
  bhash,          \* the bytes written to hash
  bsum,           \* checksumContent
  bsize,          \* stat.Size()
  bassets,        \* the assets the hosting service created, in order
  berr,           \* the error UploadReleaseBinary returned
  btrail,         \* the calls made so far, in order
  \* ---- one call of a command-running operation (gorepo/repo.go) ----
  xpc,            \* where the call is
  xop,            \* the operation called
  xtree,          \* Goimports: the files and directories of the repository
  xstep,          \* which of its wrappers, commands or tree entries comes next
  xrunning,       \* Goimports: the files whose goroutine has not returned
  xeg,            \* Goimports: the error the errgroup holds
  xres,           \* what each ExecCommand call returned, in order
  xfiles,         \* GoTestCover: the files it has left in the repository
  xcover,         \* GoTestCover: the coverage returned, in tenths
  xerr,           \* the error the operation returned
  \* ---- two Repository handles of one service (ghrepo/service.go) ----
  heap,           \* the github.Repository value at each place
  hrepos,         \* s.repos: owner -> name -> pointer
  hgithub,        \* per handle: r.github, a pointer
  hmuGithub,      \* per handle: r.muGithub, its holder or Free
  hpc,            \* per handle: where its goroutine is
  hop,            \* per handle: the method called and its arguments
  hupdated        \* per handle: the local variable updated of SetTopics

NoErr == "nil"

(***************************************************************************)
(*                       DEFAULT-BRANCH RESOLVER                           *)
(***************************************************************************)

\* plumbing.HEAD, plumbing.Main, plumbing.Master
HEAD == <<"HEAD">>
Main == <<"refs", "heads", "main">>
Master == <<"refs", "heads", "master">>

\* plumbing.NewBranchReferenceName(short): "refs/heads/" + short
NewBranchReferenceName(short) == <<"refs", "heads">> \o short

\* plumbing.NewRemoteReferenceName(remote, name): "refs/remotes/<remote>/<name>"
NewRemoteReferenceName(remoteName, name) == <<"refs", "remotes", remoteName, name>>

ErrReferenceNotFound == "reference not found"
errNoDefaultBranch == "no default branch found"
\* any failure of the reference store that is not "reference not found"
\* (an unreadable or malformed reference file)
ErrStorage == "reference storage error"

\* What the store holds under one name.
Absent == [t |-> "absent"]
Broken == [t |-> "broken"]
HashRef == [t |-> "hash"]
SymRef(target) == [t |-> "symbolic", target |-> target]

\* storer.Reference(n): the stored reference itself, unresolved.
StoredReference(store, n) ==
  IF n \notin DOMAIN store \/ store[n].t = "absent"
    THEN [err |-> ErrReferenceNotFound]
  ELSE IF store[n].t = "broken"
    THEN [err |-> ErrStorage]
  ELSE IF store[n].t = "symbolic"
    THEN [err |-> NoErr,
          ref |-> [name |-> n, type |-> "SymbolicReference", target |-> store[n].target]]
  ELSE [err |-> NoErr,
        ref |-> [name |-> n, type |-> "HashReference", target |-> <<>>]]

\* git.Repository.Reference(name, resolved): with resolved = true a symbolic
\* reference is followed to the reference it finally names
\* (storer.ResolveReference); a missing target is ErrReferenceNotFound.
RECURSIVE ResolveReference(_, _)
ResolveReference(store, n) ==
  LET r == StoredReference(store, n)
  IN  IF r.err # NoErr THEN r
      ELSE IF r.ref.type # "SymbolicReference" THEN r
      ELSE ResolveReference(store, r.ref.target)

Reference(store, name, resolved) ==
  IF resolved THEN ResolveReference(store, name) ELSE StoredReference(store, name)

\* git.Repository.Head(): Reference(plumbing.HEAD, true)
RepoHead(store) == Reference(store, HEAD, TRUE)

\* a slip: the two cases of the switch exchanged
refStringSwapped(ref) ==
  IF ref.type = "SymbolicReference" THEN ref.name
  ELSE IF ref.type = "HashReference" THEN ref.target
  ELSE <<>>

\* refString(ref)
refString(ref) ==
  IF ref.type = "SymbolicReference" THEN ref.target
  ELSE IF ref.type = "HashReference" THEN ref.name
  ELSE <<>>

\* strings.CutPrefix(s, "refs/remotes/origin/"): the prefix ends in "/", so
\* at least one more segment follows it.
OriginPrefix == <<"refs", "remotes", "origin">>
CutOriginPrefix(s) ==
  IF Len(s) > 3 /\ SubSeq(s, 1, 3) = OriginPrefix
    THEN [ok |-> TRUE, short |-> SubSeq(s, 4, Len(s))]
    ELSE [ok |-> FALSE, short |-> s]

\* a slip: the candidates probed from the last to the first
RECURSIVE probeCandidatesBackwards(_, _)
probeCandidatesBackwards(store, candidates) ==
  IF candidates = <<>> THEN [name |-> <<>>, err |-> errNoDefaultBranch]
  ELSE LET last1 == candidates[Len(candidates)]
           c == Reference(store, last1, TRUE)
       IN  IF c.err = NoErr THEN [name |-> last1, err |-> NoErr]
           ELSE IF c.err # ErrReferenceNotFound THEN [name |-> <<>>, err |-> c.err]
           ELSE probeCandidatesBackwards(store, SubSeq(candidates, 1, Len(candidates) - 1))

\* a slip: every error of a probe taken for "reference not found"
RECURSIVE probeCandidatesSkippingErrors(_, _)
probeCandidatesSkippingErrors(store, candidates) ==
  IF candidates = <<>> THEN [name |-> <<>>, err |-> errNoDefaultBranch]
  ELSE LET c == Reference(store, candidates[1], TRUE)
       IN  IF c.err = NoErr THEN [name |-> candidates[1], err |-> NoErr]
           ELSE probeCandidatesSkippingErrors(store, Tail(candidates))

\* the loop over []plumbing.ReferenceName{plumbing.Main, plumbing.Master}
RECURSIVE probeCandidates(_, _)
probeCandidates(store, candidates) ==
  IF candidates = <<>> THEN [name |-> <<>>, err |-> errNoDefaultBranch]
  ELSE LET c == Reference(store, candidates[1], TRUE)
       IN  IF c.err = NoErr THEN [name |-> candidates[1], err |-> NoErr]
           ELSE IF c.err # ErrReferenceNotFound THEN [name |-> <<>>, err |-> c.err]
           ELSE probeCandidates(store, Tail(candidates))

\* a slip: the test for a missing HEAD left out
headOrProbeWithoutHead(store) == probeCandidates(store, <<Main, Master>>)

\* getDefaultBranch, from the local HEAD on
headOrProbe(store) ==
  LET h == RepoHead(store)
  IN  IF h.err = ErrReferenceNotFound THEN [name |-> Main, err |-> NoErr]
      ELSE IF h.err # NoErr THEN [name |-> <<>>, err |-> h.err]
      ELSE probeCandidates(store, <<Main, Master>>)

\* getDefaultBranch(r)
getDefaultBranch(store) ==
  LET o == Reference(store, NewRemoteReferenceName("origin", "HEAD"), TRUE)
      cut == CutOriginPrefix(refString(o.ref))
  IN  IF o.err = NoErr /\ cut.ok
        THEN [name |-> NewBranchReferenceName(cut.short), err |-> NoErr]
      ELSE IF o.err # NoErr /\ o.err # ErrReferenceNotFound
        THEN [name |-> <<>>, err |-> o.err]
      ELSE headOrProbe(store)

\* ---- the repositories the resolver is run on ----
LocalBranches == {"main", "master", "dev"}
RemoteBranches == {"main", "dev"}
OriginHEAD == NewRemoteReferenceName("origin", "HEAD")
RefNames ==
  {HEAD, OriginHEAD}
    \cup {NewBranchReferenceName(<<b>>) : b \in LocalBranches}
    \cup {NewRemoteReferenceName("origin", b) : b \in LocalBranches}

\* HEAD names a local branch (which may not exist yet), or is detached
HeadValues ==
  {Absent, Broken, HashRef} \cup {SymRef(NewBranchReferenceName(<<b>>)) : b \in LocalBranches}
\* origin/HEAD names a remote-tracking branch; it may also have been set to
\* a plain hash or to a reference outside refs/remotes/origin/
OriginHeadValues ==
  {Absent, Broken, HashRef, SymRef(Main)}
    \cup {SymRef(NewRemoteReferenceName("origin", b)) : b \in RemoteBranches}
BranchValues == {Absent, Broken, HashRef}

\* The stores a repository is opened on: HEAD and origin/HEAD as above,
\* every local branch and the remote-tracking branch of every branch the
\* remote has absent, unreadable or present; a branch the remote does not
\* have has no remote-tracking branch until a push creates both.
RefStores ==
  LET branches == {NewBranchReferenceName(<<b>>) : b \in LocalBranches}
                    \cup {NewRemoteReferenceName("origin", b) : b \in RemoteBranches}
  IN  {[n \in RefNames |->
          IF n = HEAD THEN h
          ELSE IF n = OriginHEAD THEN o
          ELSE IF n \in branches THEN f[n]
          ELSE Absent] :
        h \in HeadValues, o \in OriginHeadValues, f \in [branches -> BranchValues]}

\* r.defaultBranch before NewRepository has resolved it
NotResolved == [name |-> <<>>, err |-> "not resolved yet"]
\* getDefaultBranch has not been called
NoLookup == [refs |-> [n \in RefNames |-> Absent], ret |-> NotResolved]

BranchAtRest ==
  /\ gitrefs = [n \in RefNames |-> Absent]
  /\ defaultBranch = NotResolved
  /\ lookup = NoLookup
  /\ giterr = NoErr

InitBranch ==
  /\ gitrefs \in RefStores
  /\ defaultBranch = NotResolved
  /\ lookup = NoLookup
  /\ giterr = NoErr

\* Worktree.Checkout(&git.CheckoutOptions{Branch: branch, Create: create})
\* of go-git.  With Create the branch must not exist and is created at the
\* commit of HEAD; the branch is then resolved and its commit read, HEAD is
\* made a symbolic reference to it, and the worktree is reset.  fail says
\* where the call fails for a cause outside the reference store: "objects"
\* while the commit is read, "worktree" during the reset, "none" nowhere.
CheckoutFailures == {"none", "objects", "worktree"}
Checkout(store, branch, create, fail) ==
  LET existing == StoredReference(store, branch)
      head == RepoHead(store)
      createErr ==
        IF ~create THEN NoErr
        ELSE IF existing.err = NoErr THEN "a branch with that name already exists"
        ELSE IF existing.err # ErrReferenceNotFound THEN existing.err
        ELSE head.err
      created ==
        IF create /\ createErr = NoErr
          THEN [store EXCEPT ![branch] = HashRef]
          ELSE store
      b == Reference(created, branch, TRUE)
  IN  IF createErr # NoErr THEN [store |-> store, err |-> createErr]
      ELSE IF b.err # NoErr THEN [store |-> created, err |-> b.err]
      ELSE IF fail = "objects" THEN [store |-> created, err |-> "object not found"]
      ELSE LET moved == [created EXCEPT ![HEAD] = SymRef(branch)]
           IN  IF fail = "worktree"
                 THEN [store |-> moved, err |-> "worktree reset failed"]
                 ELSE [store |-> moved, err |-> NoErr]

\* Worktree.updateHEAD of go-git: the branch HEAD names, or HEAD itself when
\* it is detached, is set to the new commit
updateHEAD(store) ==
  LET head == StoredReference(store, HEAD)
  IN  IF head.err # NoErr THEN [store |-> store, err |-> head.err]
      ELSE IF head.ref.type # "HashReference"
        THEN [store |-> [store EXCEPT ![head.ref.target] = HashRef], err |-> NoErr]
      ELSE [store |-> [store EXCEPT ![HEAD] = HashRef], err |-> NoErr]

\* Service.NewRepository from the call of getDefaultBranch to the end of its
\* error handling: without the InitGit option, or for any error but
\* errNoDefaultBranch, the error is returned; with it the branch main is
\* created and checked out and becomes the default branch
GetDefaultBranch ==
  /\ defaultBranch = NotResolved
  /\ LET ret == getDefaultBranch(gitrefs)
     IN  /\ lookup' = [refs |-> gitrefs, ret |-> ret]
         /\ \E initGit \in BOOLEAN :
              IF ret.err = NoErr \/ ~initGit \/ ret.err # errNoDefaultBranch
                THEN /\ defaultBranch' = ret
                     /\ UNCHANGED gitrefs
                ELSE \E fail \in CheckoutFailures :
                       LET c == Checkout(gitrefs, Main, TRUE, fail)
                       IN  /\ gitrefs' = c.store
                           /\ defaultBranch' =
                                IF c.err # NoErr
                                  THEN [name |-> <<>>, err |-> "failed to create default branch"]
                                  ELSE [name |-> Main, err |-> NoErr]
  /\ UNCHANGED giterr

\* NewRepository has returned a handle as far as the default branch goes
Opened == defaultBranch # NotResolved /\ defaultBranch.err = NoErr

\* Repository.CheckoutDefault
CheckoutDefault ==
  /\ Opened
  /\ \E fail \in CheckoutFailures :
       LET c == Checkout(gitrefs, defaultBranch.name, FALSE, fail)
       IN  /\ gitrefs' = c.store
           /\ giterr' = c.err
  /\ UNCHANGED <<defaultBranch, lookup>>

\* Repository.Commit, and CommitAll which calls it: the paths are added,
\* then Worktree.Commit of go-git reads HEAD for the parent (a missing HEAD
\* is no parent), writes the commit and calls updateHEAD.  ErrEmptyCommit
\* is taken for success.
Commit ==
  /\ Opened
  /\ \E outcome \in {"add failed", "empty commit", "commit failed", "committed"} :
       LET head == RepoHead(gitrefs)
           u == updateHEAD(gitrefs)
       IN  IF outcome = "add failed"
             THEN giterr' = "failed to add to worktree" /\ UNCHANGED gitrefs
           ELSE IF head.err # NoErr /\ head.err # ErrReferenceNotFound
             THEN giterr' = "commit failed" /\ UNCHANGED gitrefs
           ELSE IF outcome = "empty commit"
             THEN giterr' = NoErr /\ UNCHANGED gitrefs
           ELSE IF outcome = "commit failed" \/ u.err # NoErr
             THEN giterr' = "commit failed" /\ UNCHANGED gitrefs
           ELSE giterr' = NoErr /\ gitrefs' = u.store
  /\ UNCHANGED <<defaultBranch, lookup>>

\* Repository.Pull: Worktree.PullContext of go-git fetches from origin and
\* then moves the current branch forward with updateHEAD and resets the
\* worktree.  The fetch handles the branches the remote has (here
\* RemoteBranches) one after the other, in an order the code does not fix:
\* it reads the remote-tracking reference of the branch, returns the
\* store's error when the reference is unreadable, and sets it otherwise;
\* the references set before an unreadable one is met (done) stay set.
\* NoErrAlreadyUpToDate is taken for success.
Pull ==
  /\ Opened
  /\ \E outcome \in {"fetch failed", "up to date", "not fast-forward", "merged", "reset failed"},
        done \in SUBSET RemoteBranches :
       LET tracking(b) == NewRemoteReferenceName("origin", b)
           unreadable == {b \in RemoteBranches : gitrefs[tracking(b)] = Broken}
           got == [n \in RefNames |->
                     IF \E b \in done : n = tracking(b) THEN HashRef ELSE gitrefs[n]]
           head == RepoHead(got)
           u == updateHEAD(got)
       IN  IF outcome = "fetch failed"
             THEN done = {} /\ giterr' = "fetch failed" /\ UNCHANGED gitrefs
           ELSE IF unreadable # {}
             THEN /\ outcome = "merged"
                  /\ done \subseteq RemoteBranches \ unreadable
                  /\ giterr' = ErrStorage
                  /\ gitrefs' = got
           ELSE IF done # RemoteBranches THEN FALSE
           ELSE IF head.err = NoErr /\ outcome = "up to date"
             THEN giterr' = NoErr /\ gitrefs' = got
           ELSE IF head.err = NoErr /\ outcome = "not fast-forward"
             THEN giterr' = "non-fast-forward update" /\ gitrefs' = got
           ELSE IF head.err # NoErr /\ head.err # ErrReferenceNotFound
             THEN giterr' = head.err /\ gitrefs' = got
           ELSE IF u.err # NoErr
             THEN giterr' = u.err /\ gitrefs' = got
           ELSE /\ gitrefs' = u.store
                /\ giterr' = IF outcome = "reset failed" THEN "worktree reset failed" ELSE NoErr
  /\ UNCHANGED <<defaultBranch, lookup>>

\* Repository.Push: Repository.PushContext of go-git lists the references of
\* the store (an unreadable one ends the push), sends the local branches
\* whose commit the remote does not have (pushed; none is
\* NoErrAlreadyUpToDate, which is taken for success), and, when the remote
\* has accepted them, sets the remote-tracking reference of each branch
\* sent (updateRemoteReferenceStorage).
Push ==
  /\ Opened
  /\ \E accepted \in BOOLEAN, pushed \in SUBSET LocalBranches :
       LET tracking(b) == NewRemoteReferenceName("origin", b)
       IN  IF \E n \in RefNames : gitrefs[n] = Broken
             THEN /\ accepted /\ pushed = {}
                  /\ giterr' = "push failed"
                  /\ UNCHANGED gitrefs
           ELSE /\ \A b \in pushed : gitrefs[NewBranchReferenceName(<<b>>)] = HashRef
                /\ IF ~accepted
                     THEN /\ pushed = {}
                          /\ giterr' = "push failed"
                          /\ UNCHANGED gitrefs
                     ELSE /\ giterr' = NoErr
                          /\ gitrefs' =
                               [n \in RefNames |->
                                  IF \E b \in pushed : n = tracking(b)
                                    THEN HashRef ELSE gitrefs[n]]
  /\ UNCHANGED <<defaultBranch, lookup>>

varsBranch == <<gitrefs, defaultBranch, lookup, giterr>>

(***************************************************************************)
(*                 REPOSITORY METADATA: SetTopics, Edit, ...               *)
(***************************************************************************)
(* github.Repository is a struct of optional fields.  The model keeps      *)
(* three of them: Description, a pointer to a string; Topics, a slice of   *)
(* strings; Archived, a pointer to a bool.  A pointer field is <<>> when    *)
(* nil and <<v>> when it points to                                         *)
(* v; a slice is the sequence of its elements (a nil slice is <<>>).       *)
(***************************************************************************)
MaxTopics == 2
TopicNames == {"go", "cli"}

RECURSIVE SeqsUpTo(_, _)
SeqsUpTo(S, n) ==
  IF n = 0 THEN {<<>>}
  ELSE LET shorter == SeqsUpTo(S, n - 1)
       IN  shorter \cup {Append(q, x) : q \in {r \in shorter : Len(r) = n - 1}, x \in S}

TopicLists == SeqsUpTo(TopicNames, MaxTopics)

RepoFields == {"Description", "Topics", "Archived"}
MkRepo(d, t, a) == [Description |-> d, Topics |-> t, Archived |-> a]

\* a Go pointer to a struct, as reflect sees it
PtrTo(s) == [kind |-> "ptr", elem |-> s]
\* reflect.ValueOf(x).Kind()
KindOf(x) == IF "kind" \in DOMAIN x THEN x.kind ELSE "struct"

Free == "free"
Goroutines == {"g1", "g2"}

\* slices.Equal compared by length only
slicesEqualLen(a, b) == Len(a) = Len(b)

\* slices.Equal(a, b)
slicesEqual(a, b) ==
  /\ Len(a) = Len(b)
  /\ \A i \in 1..Len(a) : a[i] = b[i]

\* reflect.Value.IsNil of a pointer or slice field
IsNil(f) == f = <<>>

\* the loop of hasChanges over the fields of two struct values
fieldsChanged(iv, uv) ==
  \E f \in RepoFields :
    /\ ~IsNil(uv[f])
    /\ \/ IsNil(iv[f])
       \/ uv[f] # iv[f]

\* hasChanges(initial, update): both arguments are *github.Repository, and
\* reflect.ValueOf of a pointer has Kind Ptr, on which NumField panics
\* ("reflect: call of reflect.Value.NumField on ptr Value") before any field
\* is looked at.
hasChanges(initial, update) ==
  IF KindOf(update) # "struct"
    THEN [panic |-> TRUE, value |-> FALSE]
    ELSE [panic |-> FALSE, value |-> fieldsChanged(initial, update)]

\* Repositories.ReplaceAllTopics on the hosting service: the repository's
\* topics become exactly the names sent, and the service answers with them.
ServerReplaceAllTopics(rec, topics) == [rec EXCEPT !.Topics = topics]

\* Repositories.Edit on the hosting service: every field present in the
\* sparse update is set; the service answers with the whole record.
ServerEdit(rec, update) ==
  [f \in RepoFields |-> IF IsNil(update[f]) THEN rec[f] ELSE update[f]]

\* ---- the calls a goroutine can make on the handle ----
NoUpdate == MkRepo(<<>>, <<>>, <<>>)
MkOp(name, topics, update) == [name |-> name, topics |-> topics, update |-> update]
NoCall == MkOp("none", <<>>, NoUpdate)

Descriptions == {"", "tool"}
Updates ==
  {MkRepo(d, <<>>, a) : d \in {<<>>, <<"tool">>}, a \in {<<>>, <<TRUE>>}}
    \cup {MkRepo(<<>>, <<"go">>, <<>>)}
Calls ==
  {MkOp("SetTopics", t, NoUpdate) : t \in TopicLists}
    \cup {MkOp("Edit", <<>>, u) : u \in Updates}
    \cup {MkOp("SetDescription", <<>>, MkRepo(<<d>>, <<>>, <<>>)) : d \in Descriptions}
    \cup {MkOp(n, <<>>, NoUpdate) : n \in {"Description", "Topics", "Archived"}}

\* the outcome of a call: err is NoErr, an error, or "panic"; live counts
\* the requests sent to the hosting service; out is what a getter returns;
\* before is r.github when the lock was taken; served is the record (or
\* topic list) the service answered with.
MkRes(err, live, out, before, served) ==
  [err |-> err, live |-> live, out |-> out, before |-> before, served |-> served]
NoRes == MkRes(NoErr, 0, <<>>, NoUpdate, <<>>)
NoLast == [g |-> "none", op |-> NoCall, res |-> NoRes]

ErrRemote == "hosting service error"
Panic == "panic"

InitialRecords ==
  {MkRepo(<<>>, <<>>, <<>>), MkRepo(<<"tool">>, <<"go">>, <<FALSE>>),
   MkRepo(<<"tool">>, <<"go">>, <<TRUE>>)}

MetaAtRest ==
  /\ github = NoUpdate
  /\ remote = NoUpdate
  /\ muGithub = Free
  /\ tpc = [g \in Goroutines |-> "idle"]
  /\ top = [g \in Goroutines |-> NoCall]
  /\ tres = [g \in Goroutines |-> NoRes]
  /\ last = NoLast

\* NewRepository has fetched the record from the hosting service
InitMeta ==
  /\ github \in InitialRecords
  /\ remote = github
  /\ muGithub = Free
  /\ tpc = [g \in Goroutines |-> "idle"]
  /\ top = [g \in Goroutines |-> NoCall]
  /\ tres = [g \in Goroutines |-> NoRes]
  /\ last = NoLast

\* a goroutine calls a method of the handle
Call(g, o) ==
  /\ tpc[g] = "idle"
  /\ tpc' = [tpc EXCEPT ![g] = "lock"]
  /\ top' = [top EXCEPT ![g] = o]
  /\ tres' = [tres EXCEPT ![g] = NoRes]
  /\ last' = NoLast
  /\ UNCHANGED <<github, remote, muGithub>>

\* a slip: the lock taken without waiting for its holder
LockWithoutWaiting(g) ==
  /\ tpc[g] = "lock"
  /\ muGithub' = g
  /\ tpc' = [tpc EXCEPT ![g] = "body"]
  /\ last' = NoLast
  /\ UNCHANGED <<github, remote, top, tres>>

\* r.muGithub.Lock()
Lock(g) ==
  /\ tpc[g] = "lock"
  /\ muGithub = Free
  /\ muGithub' = g
  /\ tpc' = [tpc EXCEPT ![g] = "body"]
  /\ last' = NoLast
  /\ UNCHANGED <<github, remote, top, tres>>

InBody(g, names) ==
  /\ tpc[g] = "body"
  /\ muGithub = g
  /\ top[g].name \in names

Finish(g, res) ==
  /\ tpc' = [tpc EXCEPT ![g] = "unlock"]
  /\ tres' = [tres EXCEPT ![g] = res]
  /\ last' = NoLast
  /\ UNCHANGED <<muGithub, top>>

\* Repository.SetTopics from the comparison to the answer of
\* ReplaceAllTopics: the service's record changes here, r.github not yet
SetTopicsBody(g) ==
  /\ InBody(g, {"SetTopics"})
  /\ LET topics == top[g].topics
     IN  IF slicesEqual(github.Topics, topics)
           THEN /\ Finish(g, MkRes(NoErr, 0, <<>>, github, <<>>))
                /\ UNCHANGED remote
           ELSE \E ok \in BOOLEAN :
                  IF ok
                    THEN LET served == ServerReplaceAllTopics(remote, topics)
                         IN  /\ remote' = served
                             /\ tpc' = [tpc EXCEPT ![g] = "store"]
                             /\ tres' = [tres EXCEPT ![g] =
                                           MkRes(NoErr, 1, <<>>, github, served.Topics)]
                             /\ last' = NoLast
                             /\ UNCHANGED <<muGithub, top>>
                    ELSE /\ Finish(g, MkRes(ErrRemote, 1, <<>>, github, <<>>))
                         /\ UNCHANGED remote
  /\ UNCHANGED github

\* Repository.SetTopics: r.github.Topics = updated
SetTopicsStore(g) ==
  /\ tpc[g] = "store"
  /\ muGithub = g
  /\ github' = [github EXCEPT !.Topics = tres[g].served]
  /\ tpc' = [tpc EXCEPT ![g] = "unlock"]
  /\ last' = NoLast
  /\ UNCHANGED <<remote, muGithub, top, tres>>

\* Repository.Edit between Lock and the deferred Unlock
EditUnderLock(g, update) ==
  LET hc == hasChanges(PtrTo(github), PtrTo(update))
  IN  IF hc.panic
        THEN /\ Finish(g, MkRes(Panic, 0, <<>>, github, <<>>))
             /\ UNCHANGED <<github, remote>>
      ELSE IF ~hc.value
        THEN /\ Finish(g, MkRes(NoErr, 0, <<>>, github, <<>>))
             /\ UNCHANGED <<github, remote>>
      ELSE \E ok \in BOOLEAN :
             IF ok
               THEN LET served == ServerEdit(remote, update)
                    IN  /\ remote' = served
                        /\ github' = served
                        /\ Finish(g, MkRes(NoErr, 1, <<>>, github, served))
               ELSE /\ Finish(g, MkRes(ErrRemote, 1, <<>>, github, <<>>))
                    /\ UNCHANGED <<github, remote>>

EditBody(g) ==
  /\ InBody(g, {"Edit"})
  /\ EditUnderLock(g, top[g].update)

\* Repository.SetDescription: r.Edit(ctx, &github.Repository{Description: github.Ptr(descr)})
SetDescriptionBody(g) ==
  /\ InBody(g, {"SetDescription"})
  /\ EditUnderLock(g, top[g].update)

\* Repository.Description
DescriptionOf(rec) == IF rec.Description = <<>> THEN "" ELSE rec.Description[1]
DescriptionBody(g) ==
  /\ InBody(g, {"Description"})
  /\ Finish(g, MkRes(NoErr, 0, <<DescriptionOf(github)>>, github, <<>>))
  /\ UNCHANGED <<github, remote>>

\* Repository.Topics
TopicsOf(rec) == rec.Topics
TopicsBody(g) ==
  /\ InBody(g, {"Topics"})
  /\ Finish(g, MkRes(NoErr, 0, TopicsOf(github), github, <<>>))
  /\ UNCHANGED <<github, remote>>

\* Repository.Archived: *r.github.Archived, a nil dereference when unset
ArchivedBody(g) ==
  /\ InBody(g, {"Archived"})
  /\ IF github.Archived = <<>>
       THEN Finish(g, MkRes(Panic, 0, <<>>, github, <<>>))
       ELSE Finish(g, MkRes(NoErr, 0, github.Archived, github, <<>>))
  /\ UNCHANGED <<github, remote>>

\* the deferred r.muGithub.Unlock(), and the return to the caller (a panic
\* unwinds through the deferred call as well)
Return(g) ==
  /\ tpc[g] = "unlock"
  /\ muGithub = g
  /\ muGithub' = Free
  /\ tpc' = [tpc EXCEPT ![g] = "idle"]
  /\ last' = [g |-> g, op |-> top[g], res |-> tres[g]]
  /\ top' = [top EXCEPT ![g] = NoCall]
  /\ tres' = [tres EXCEPT ![g] = NoRes]
  /\ UNCHANGED <<github, remote>>

varsMeta == <<github, remote, muGithub, tpc, top, tres, last>>

(***************************************************************************)
(*                    SERVICE CACHE AND PREFETCH                           *)
(***************************************************************************)
(* The hosting service lists an owner's repositories in pages.  The code   *)
(* asks for pages of maxPerPage = 100 records; the model's pages hold      *)
(* maxPerPage records of a much smaller listing.                           *)
(***************************************************************************)
maxPerPage == 2

MkRecord(owner, name) == [Owner |-> owner, Name |-> name]
\* a nil *github.Repository
NilRecord == MkRecord("", "")

Owners == {"alice", "acme", "nobody"}

\* what the hosting service holds: alice and acme both own a repository
\* named app; nobody owns none
RemoteRepos(owner) ==
  IF owner = "alice"
    THEN <<MkRecord("alice", "app"), MkRecord("alice", "lib"), MkRecord("alice", "cli")>>
  ELSE IF owner = "acme"
    THEN <<MkRecord("acme", "app")>>
  ELSE <<>>

Min(a, b) == IF a < b THEN a ELSE b

\* Repositories.ListByUser / ListByOrg with ListOptions{Page, PerPage}:
\* the records of that page and resp.NextPage (0 when there is none)
ListPage(owner, page, perPage) ==
  LET all == RemoteRepos(owner)
      first == (page - 1) * perPage + 1
      end == Min(page * perPage, Len(all))
  IN  [repos |-> SubSeq(all, first, end),
       next |-> IF page * perPage < Len(all) THEN page + 1 ELSE 0]

\* r.GetName()
GetName(r) == r.Name

\* the body of addRepos under s.mu: the owner's map is created when
\* missing, then every record is stored under its name
RECURSIVE insertAll(_, _)
insertAll(byName, rs) ==
  IF rs = <<>> THEN byName
  ELSE insertAll([n \in DOMAIN byName \cup {GetName(rs[1])} |->
                    IF n = GetName(rs[1]) THEN rs[1] ELSE byName[n]],
                 Tail(rs))

EmptyMap == [n \in {} |-> NilRecord]

addReposLocked(cache, owner, rs) ==
  LET byName == IF owner \in DOMAIN cache THEN cache[owner] ELSE EmptyMap
  IN  [o \in DOMAIN cache \cup {owner} |->
         IF o = owner THEN insertAll(byName, rs) ELSE cache[o]]

\* the body of getRepo under s.mu
getRepoLocked(cache, owner, name) ==
  IF owner \in DOMAIN cache
    THEN IF name \in DOMAIN cache[owner] THEN cache[owner][name] ELSE NilRecord
    ELSE NilRecord

\* the first argument of s.addRepos in the two prefetch functions:
\* PrefetchOrgRepositories passes its parameter org; PrefetchUserRepositories
\* passes org as well, which is not its parameter user but an identifier of
\* the enclosing scope
addReposOwner(call) ==
  IF call.kind = "user" THEN org ELSE call.owner

\* the values the outer identifier org may have: unset, or an organization
OuterOrgValues == {"", "acme"}

Prefetchers == {"p1", "p2"}
Lookups == {"l1", "l2"}
\* the owners and names looked up: a name both owners have, and one that
\* only alice has, on her second page
LookupOwners == {"alice", "acme"}
LookupNames == {"app", "cli"}
PrefetchCalls == {[kind |-> k, owner |-> o] : k \in {"user", "org"}, o \in Owners}
NoPrefetch == [kind |-> "none", owner |-> ""]
NoList == [repos |-> <<>>, next |-> 0]
NoKey == [owner |-> "", name |-> ""]
\* what a lookup returned, and the prefetching goroutines that had returned
\* without error before it read the cache
NoGot == [rec |-> NilRecord, after |-> {}]
Running == "running"

CacheAtRest ==
  /\ repos = [o \in {} |-> EmptyMap]
  /\ mu = Free
  /\ org = ""
  /\ ppc = [p \in Prefetchers |-> "idle"]
  /\ pcall = [p \in Prefetchers |-> NoPrefetch]
  /\ ppage = [p \in Prefetchers |-> 0]
  /\ plist = [p \in Prefetchers |-> NoList]
  /\ perr = [p \in Prefetchers |-> Running]
  /\ lpc = [l \in Lookups |-> "idle"]
  /\ lkey = [l \in Lookups |-> NoKey]
  /\ lgot = [l \in Lookups |-> NoGot]

\* NewService: repos: map[string]map[string]*github.Repository{}
InitCache ==
  /\ repos = [o \in {} |-> EmptyMap]
  /\ mu = Free
  /\ org \in OuterOrgValues
  /\ ppc = [p \in Prefetchers |-> "idle"]
  /\ pcall = [p \in Prefetchers |-> NoPrefetch]
  /\ ppage = [p \in Prefetchers |-> 0]
  /\ plist = [p \in Prefetchers |-> NoList]
  /\ perr = [p \in Prefetchers |-> Running]
  /\ lpc = [l \in Lookups |-> "idle"]
  /\ lkey = [l \in Lookups |-> NoKey]
  /\ lgot = [l \in Lookups |-> NoGot]

varsLookup == <<lpc, lkey, lgot>>

\* PrefetchUserRepositories(ctx, user) / PrefetchOrgRepositories(ctx, org)
\* is called: page := 1
PrefetchCall(p, c) ==
  /\ ppc[p] = "idle"
  /\ ppc' = [ppc EXCEPT ![p] = "list"]
  /\ pcall' = [pcall EXCEPT ![p] = c]
  /\ ppage' = [ppage EXCEPT ![p] = 1]
  /\ UNCHANGED <<repos, mu, org, plist, perr, varsLookup>>

\* for page > 0 { repos, resp, err := ...List...; if err != nil { return err }
PrefetchList(p) ==
  /\ ppc[p] = "list"
  /\ \E ok \in BOOLEAN :
       IF ok
         THEN /\ plist' = [plist EXCEPT ![p] = ListPage(pcall[p].owner, ppage[p], maxPerPage)]
              /\ ppc' = [ppc EXCEPT ![p] = "add"]
              /\ UNCHANGED perr
         ELSE /\ perr' = [perr EXCEPT ![p] = ErrRemote]
              /\ ppc' = [ppc EXCEPT ![p] = "returned"]
              /\ UNCHANGED plist
  /\ UNCHANGED <<repos, mu, org, pcall, ppage, varsLookup>>

\* page = resp.NextPage, and the loop test; return nil after the last page
NextPageOrReturn(p) ==
  /\ ppage' = [ppage EXCEPT ![p] = plist[p].next]
  /\ IF plist[p].next > 0
       THEN /\ ppc' = [ppc EXCEPT ![p] = "list"]
            /\ UNCHANGED perr
       ELSE /\ ppc' = [ppc EXCEPT ![p] = "returned"]
            /\ perr' = [perr EXCEPT ![p] = NoErr]

\* addRepos: if len(repos) == 0 { return }
AddReposEmpty(p) ==
  /\ ppc[p] = "add"
  /\ Len(plist[p].repos) = 0
  /\ NextPageOrReturn(p)
  /\ UNCHANGED <<repos, mu, org, pcall, plist, varsLookup>>

\* addRepos: s.mu.Lock()
AddReposLock(p) ==
  /\ ppc[p] = "add"
  /\ Len(plist[p].repos) # 0
  /\ mu = Free
  /\ mu' = p
  /\ ppc' = [ppc EXCEPT ![p] = "insert"]
  /\ UNCHANGED <<repos, org, pcall, ppage, plist, perr, varsLookup>>

\* addRepos: the map updates
AddReposInsert(p) ==
  /\ ppc[p] = "insert"
  /\ mu = p
  /\ repos' = addReposLocked(repos, addReposOwner(pcall[p]), plist[p].repos)
  /\ ppc' = [ppc EXCEPT ![p] = "unlock"]
  /\ UNCHANGED <<mu, org, pcall, ppage, plist, perr, varsLookup>>

\* addRepos: the deferred s.mu.Unlock(); back in the prefetch loop
AddReposUnlock(p) ==
  /\ ppc[p] = "unlock"
  /\ mu = p
  /\ mu' = Free
  /\ NextPageOrReturn(p)
  /\ UNCHANGED <<repos, org, pcall, plist, varsLookup>>

varsPrefetch == <<ppc, pcall, ppage, plist, perr>>

ReturnedOk == {p \in Prefetchers : ppc[p] = "returned" /\ perr[p] = NoErr}

\* getRepo(owner, name) is called: s.mu.Lock()
GetRepoLock(l, owner, name) ==
  /\ lpc[l] = "idle"
  /\ mu = Free
  /\ mu' = l
  /\ lpc' = [lpc EXCEPT ![l] = "read"]
  /\ lkey' = [lkey EXCEPT ![l] = [owner |-> owner, name |-> name]]
  /\ UNCHANGED <<repos, org, lgot, varsPrefetch>>

\* getRepo: the map reads
GetRepoRead(l) ==
  /\ lpc[l] = "read"
  /\ mu = l
  /\ lgot' = [lgot EXCEPT ![l] = [rec |-> getRepoLocked(repos, lkey[l].owner, lkey[l].name),
                                  after |-> ReturnedOk]]
  /\ lpc' = [lpc EXCEPT ![l] = "unlock"]
  /\ UNCHANGED <<repos, mu, org, lkey, varsPrefetch>>

\* getRepo: the deferred s.mu.Unlock(), and the return
GetRepoUnlock(l) ==
  /\ lpc[l] = "unlock"
  /\ mu = l
  /\ mu' = Free
  /\ lpc' = [lpc EXCEPT ![l] = "returned"]
  /\ UNCHANGED <<repos, org, lkey, lgot, varsPrefetch>>

varsCache == <<repos, mu, org, varsPrefetch, varsLookup>>

(***************************************************************************)
(*                 BYTES, STRINGS, DIGEST AND ARCHIVE                      *)
(***************************************************************************)
(* A Go string is a sequence of one-character strings; file and asset      *)
(* contents are sequences of bytes (0..255).  asciiCode is []byte(s) for   *)
(* the characters the model uses.                                          *)
(***************************************************************************)
asciiCode ==
  [c \in {"0", "1", "2", "3", "4", "5", "6", "7", "8", "9",
          "a", "b", "c", "d", "e", "f", "A", "B", "C", "D", "E", "F",
          "g", "o", "x", "t", "z", "i", "p", ".", "_", "\n"} |->
     CASE c = "0" -> 48 [] c = "1" -> 49 [] c = "2" -> 50 [] c = "3" -> 51
       [] c = "4" -> 52 [] c = "5" -> 53 [] c = "6" -> 54 [] c = "7" -> 55
       [] c = "8" -> 56 [] c = "9" -> 57
       [] c = "a" -> 97 [] c = "b" -> 98 [] c = "c" -> 99 [] c = "d" -> 100
       [] c = "e" -> 101 [] c = "f" -> 102
       [] c = "A" -> 65 [] c = "B" -> 66 [] c = "C" -> 67 [] c = "D" -> 68
       [] c = "E" -> 69 [] c = "F" -> 70
       [] c = "g" -> 103 [] c = "o" -> 111 [] c = "x" -> 120 [] c = "t" -> 116
       [] c = "z" -> 122 [] c = "i" -> 105 [] c = "p" -> 112
       [] c = "." -> 46 [] c = "_" -> 95 [] c = "\n" -> 10]

\* []byte(s), what strings.NewReader(s) yields
BytesOf(s) == [i \in 1..Len(s) |-> asciiCode[s[i]]]

(***************************************************************************)
(* crypto/sha256.  TLC's integers are 32 bits wide and signed, so a 32-bit *)
(* word is kept as <<high 16 bits, low 16 bits>>.                          *)
(***************************************************************************)
RECURSIVE xorBits(_, _, _)
xorBits(a, b, n) ==
  IF n = 0 THEN 0
  ELSE ((a + b) % 2) + 2 * xorBits(a \div 2, b \div 2, n - 1)

RECURSIVE andBits(_, _, _)
andBits(a, b, n) ==
  IF n = 0 THEN 0
  ELSE ((a % 2) * (b % 2)) + 2 * andBits(a \div 2, b \div 2, n - 1)

xorNibble == [a \in 0..15 |-> [b \in 0..15 |-> xorBits(a, b, 4)]]
andNibble == [a \in 0..15 |-> [b \in 0..15 |-> andBits(a, b, 4)]]

xor16(a, b) ==
    xorNibble[a % 16][b % 16]
  + 16 * xorNibble[(a \div 16) % 16][(b \div 16) % 16]
  + 256 * xorNibble[(a \div 256) % 16][(b \div 256) % 16]
  + 4096 * xorNibble[a \div 4096][b \div 4096]

and16(a, b) ==
    andNibble[a % 16][b % 16]
  + 16 * andNibble[(a \div 16) % 16][(b \div 16) % 16]
  + 256 * andNibble[(a \div 256) % 16][(b \div 256) % 16]
  + 4096 * andNibble[a \div 4096][b \div 4096]

pow2(n) == 2 ^ n

wXor(a, b) == <<xor16(a[1], b[1]), xor16(a[2], b[2])>>
wAnd(a, b) == <<and16(a[1], b[1]), and16(a[2], b[2])>>
wNot(a) == <<65535 - a[1], 65535 - a[2]>>
wAdd(a, b) ==
  LET lo == a[2] + b[2]
  IN  <<(a[1] + b[1] + (lo \div 65536)) % 65536, lo % 65536>>

\* x >> n for 0 < n < 16 on the 32-bit word
shrSmall(a, n) ==
  <<a[1] \div pow2(n), (a[2] \div pow2(n)) + (a[1] % pow2(n)) * pow2(16 - n)>>
wShr(a, n) ==
  IF n = 0 THEN a
  ELSE IF n < 16 THEN shrSmall(a, n)
  ELSE IF n = 16 THEN <<0, a[1]>>
  ELSE <<0, a[1] \div pow2(n - 16)>>
rotrSmall(a, n) ==
  <<(a[1] \div pow2(n)) + (a[2] % pow2(n)) * pow2(16 - n),
    (a[2] \div pow2(n)) + (a[1] % pow2(n)) * pow2(16 - n)>>
wRotr(a, n) ==
  IF n = 0 THEN a
  ELSE IF n < 16 THEN rotrSmall(a, n)
  ELSE IF n = 16 THEN <<a[2], a[1]>>
  ELSE rotrSmall(<<a[2], a[1]>>, n - 16)

shaK == <<
       <<17034, 12184>>, <<28983, 17553>>, <<46528, 64463>>, <<59829, 56229>>,
       <<14678, 49755>>, <<23025, 4593>>, <<37439, 33444>>, <<43804, 24277>>,
       <<55303, 43672>>, <<4739, 23297>>, <<9265, 34238>>, <<21772, 32195>>,
       <<29374, 23924>>, <<32990, 45566>>, <<39900, 1703>>, <<49563, 61812>>,
       <<58523, 27073>>, <<61374, 18310>>, <<4033, 40390>>, <<9228, 41420>>,
       <<11753, 11375>>, <<19060, 33962>>, <<23728, 43484>>, <<30457, 35034>>,
       <<38974, 20818>>, <<43057, 50797>>, <<45059, 10184>>, <<48985, 32711>>,
       <<50912, 3059>>, <<54695, 37191>>, <<1738, 25425>>, <<5161, 10599>>,
       <<10167, 2693>>, <<11803, 8504>>, <<19756, 28156>>, <<21304, 3347>>,
       <<25866, 29524>>, <<30314, 2747>>, <<33218, 51502>>, <<37490, 11397>>,
       <<41663, 59553>>, <<43034, 26187>>, <<49739, 35696>>, <<51052, 20899>>,
       <<53650, 59417>>, <<54937, 1572>>, <<62478, 13701>>, <<4202, 41072>>,
       <<6564, 49430>>, <<7735, 27656>>, <<10056, 30540>>, <<13488, 48309>>,
       <<14620, 3251>>, <<20184, 43594>>, <<23452, 51791>>, <<26670, 28659>>,
       <<29839, 33518>>, <<30885, 25455>>, <<33992, 30740>>, <<36039, 520>>,
       <<37054, 65530>>, <<42064, 27883>>, <<48889, 41975>>, <<50801, 30962>> >>
shaInit == <<
       <<27145, 58983>>, <<47975, 44677>>, <<15470, 62322>>, <<42319, 62778>>,
       <<20750, 21119>>, <<39685, 26764>>, <<8067, 55723>>, <<23520, 52505>> >>

bigSigma0(a) == wXor(wXor(wRotr(a, 2), wRotr(a, 13)), wRotr(a, 22))
bigSigma1(e) == wXor(wXor(wRotr(e, 6), wRotr(e, 11)), wRotr(e, 25))
smallSigma0(w) == wXor(wXor(wRotr(w, 7), wRotr(w, 18)), wShr(w, 3))
smallSigma1(w) == wXor(wXor(wRotr(w, 17), wRotr(w, 19)), wShr(w, 10))
shaCh(e, f, g) == wXor(wAnd(e, f), wAnd(wNot(e), g))
shaMaj(a, b, c) == wXor(wXor(wAnd(a, b), wAnd(a, c)), wAnd(b, c))

\* the 64-word message schedule of one 64-byte block
RECURSIVE schedule(_)
schedule(w) ==
  IF Len(w) = 64 THEN w
  ELSE LET t == Len(w) + 1
           v == wAdd(wAdd(w[t - 16], smallSigma0(w[t - 15])),
                     wAdd(w[t - 7], smallSigma1(w[t - 2])))
       IN  schedule(Append(w, v))

RECURSIVE rounds(_, _, _)
rounds(s, w, t) ==
  IF Len(s) = 8 /\ t > 64 THEN s
  ELSE LET t1 == wAdd(wAdd(wAdd(s[8], bigSigma1(s[5])),
                           wAdd(shaCh(s[5], s[6], s[7]), shaK[t])), w[t])
           t2 == wAdd(bigSigma0(s[1]), shaMaj(s[1], s[2], s[3]))
       IN  rounds(<<wAdd(t1, t2), s[1], s[2], s[3], wAdd(s[4], t1), s[5], s[6], s[7]>>,
                  w, t + 1)

blockWords(b) ==
  [i \in 1..16 |-> <<b[4 * i - 3] * 256 + b[4 * i - 2], b[4 * i - 1] * 256 + b[4 * i]>>]

compress(h, b) ==
  LET s == rounds(h, schedule(blockWords(b)), 1)
  IN  [i \in 1..8 |-> wAdd(h[i], s[i])]

RECURSIVE zeros(_)
zeros(n) == IF n = 0 THEN <<>> ELSE <<0>> \o zeros(n - 1)

\* message || 0x80 || zeros || 64-bit big-endian bit length
shaPad(m) ==
  LET n == Len(m)
      z == (55 - n) % 64
      bits == n * 8
  IN  m \o <<128>> \o zeros(z) \o zeros(4)
        \o <<(bits \div 16777216) % 256, (bits \div 65536) % 256,
             (bits \div 256) % 256, bits % 256>>

RECURSIVE shaBlocks(_, _)
shaBlocks(h, p) ==
  IF Len(p) = 0 THEN h
  ELSE shaBlocks(compress(h, SubSeq(p, 1, 64)), SubSeq(p, 65, Len(p)))

RECURSIVE wordsToBytes(_)
wordsToBytes(ws) ==
  IF Len(ws) = 0 THEN <<>>
  ELSE <<ws[1][1] \div 256, ws[1][1] % 256, ws[1][2] \div 256, ws[1][2] % 256>>
         \o wordsToBytes(Tail(ws))

Sum256(m) == wordsToBytes(shaBlocks(shaInit, shaPad(m)))

\* hex.EncodeToString with an upper-case digit table
hextableUpper == <<"0", "1", "2", "3", "4", "5", "6", "7",
                   "8", "9", "A", "B", "C", "D", "E", "F">>
RECURSIVE EncodeToStringUpper(_)
EncodeToStringUpper(src) ==
  IF Len(src) = 0 THEN <<>>
  ELSE <<hextableUpper[(src[1] \div 16) + 1], hextableUpper[(src[1] % 16) + 1]>>
         \o EncodeToStringUpper(Tail(src))

\* encoding/hex: const hextable = "0123456789abcdef"
hextable == <<"0", "1", "2", "3", "4", "5", "6", "7",
              "8", "9", "a", "b", "c", "d", "e", "f">>
\* hex.EncodeToString(hash.Sum(nil))
RECURSIVE EncodeToString(_)
EncodeToString(src) ==
  IF Len(src) = 0 THEN <<>>
  ELSE <<hextable[(src[1] \div 16) + 1], hextable[(src[1] % 16) + 1]>>
         \o EncodeToString(Tail(src))

(***************************************************************************)
(* compress/flate as zip.Deflate uses it, for contents shorter than the    *)
(* shortest match: one block of fixed Huffman codes holding the bytes as   *)
(* literals, closed by an empty stored block that carries the final bit;   *)
(* an empty content gives the empty stored block alone.  Bits are packed   *)
(* into bytes from the least significant bit.                              *)
(***************************************************************************)
\* the n low bits of v, most significant first (Huffman codes are written so)
RECURSIVE bitsOf(_, _)
bitsOf(v, n) ==
  IF n = 0 THEN <<>> ELSE Append(bitsOf(v \div 2, n - 1), v % 2)

\* the fixed code of a literal byte: 8 bits from 00110000 for 0..143,
\* 9 bits from 110010000 for 144..255
fixedLiteralCode(b) ==
  IF b < 144 THEN bitsOf(48 + b, 8) ELSE bitsOf(400 + (b - 144), 9)

RECURSIVE literalBits(_)
literalBits(content) ==
  IF content = <<>> THEN <<>>
  ELSE fixedLiteralCode(content[1]) \o literalBits(Tail(content))

RECURSIVE packBits(_)
packBits(bits) ==
  IF bits = <<>> THEN <<>>
  ELSE LET n == Min(8, Len(bits))
           byte == bits[1]
                   + (IF n > 1 THEN 2 * bits[2] ELSE 0)
                   + (IF n > 2 THEN 4 * bits[3] ELSE 0)
                   + (IF n > 3 THEN 8 * bits[4] ELSE 0)
                   + (IF n > 4 THEN 16 * bits[5] ELSE 0)
                   + (IF n > 5 THEN 32 * bits[6] ELSE 0)
                   + (IF n > 6 THEN 64 * bits[7] ELSE 0)
                   + (IF n > 7 THEN 128 * bits[8] ELSE 0)
       IN  <<byte>> \o packBits(SubSeq(bits, n + 1, Len(bits)))

deflate(content) ==
  LET fixedBlock == <<0, 1, 0>> \o literalBits(content) \o <<0, 0, 0, 0, 0, 0, 0>>
      finalStored == <<1, 0, 0>>
      bits == IF content = <<>> THEN finalStored ELSE fixedBlock \o finalStored
  IN  packBits(bits) \o <<0, 0, 255, 255>>

(***************************************************************************)
(* archive/zip: the file zip.Writer leaves after CreateHeader, io.Copy and *)
(* Close for one entry.  The records keep their order and signatures       *)
(* (local file header, compressed data, data descriptor, central           *)
(* directory header, end of central directory), the method, the entry      *)
(* name and the two sizes; versions, time stamps, file mode, CRC-32 and    *)
(* offsets are left out, and lengths take one byte.                        *)
(***************************************************************************)
zipArchive(entryName, content) ==
  LET name == BytesOf(entryName)
      data == deflate(content)
  IN  <<80, 75, 3, 4, 8, 0, 8, 0, Len(name)>> \o name
        \o data
        \o <<80, 75, 7, 8, Len(data), Len(content)>>
        \o <<80, 75, 1, 2, 8, 0, 8, 0, Len(name)>> \o name
        \o <<80, 75, 5, 6, 1, 1>>

(***************************************************************************)
(*                    UPLOADING ONE RELEASE ASSET                          *)
(***************************************************************************)
(* An error is the sequence of the pieces of its message; nil is the       *)
(* empty sequence.  A response body is the sequence of its tokens.         *)
(***************************************************************************)
NilError == <<>>

\* strconv.Itoa, as the %d verb prints a number
RECURSIVE Itoa(_)
Itoa(n) ==
  LET digit == <<"0", "1", "2", "3", "4", "5", "6", "7", "8", "9">>[(n % 10) + 1]
  IN  IF n < 10 THEN <<digit>> ELSE Append(Itoa(n \div 10), digit)

\* text contains part as a substring
Contains(text, part) ==
  \E i \in 0..(Len(text) - Len(part)) :
    \A j \in 1..Len(part) : text[i + j] = part[j]

\* filepath.Ext: the suffix beginning at the final dot, or empty
RECURSIVE Ext(_)
Ext(name) ==
  IF name = <<>> THEN <<>>
  ELSE IF \E i \in 2..Len(name) : name[i] = "." THEN Ext(Tail(name))
  ELSE IF name[1] = "." THEN name
  ELSE <<>>

\* mime.TypeByExtension on a system whose type table lists .zip and .txt
TypeByExtension(ext) ==
  IF ext = <<".", "z", "i", "p">> THEN "application/zip"
  ELSE IF ext = <<".", "t", "x", "t">> THEN "text/plain; charset=utf-8"
  ELSE ""

\* the owner, repository name and release the handle uploads to
RepoOwner == <<"MarkRosemaker">>
RepoName == <<"g", "o">>
RelID == 1

\* fmt.Sprintf("repos/%s/%s/releases/%d/assets?name=%s", ...)
uploadURL(assetName) ==
  <<"repos/">> \o RepoOwner \o <<"/">> \o RepoName \o <<"/releases/">>
    \o Itoa(RelID) \o <<"/assets?name=">> \o assetName

\* net/url refuses a URL holding an ASCII control character
ControlChars == {"\n"}

\* strconv.Quote, which the verb %q prints a text with: the text between
\* double quotes, with a newline written as the two characters backslash
\* and n, a tab as backslash and t, and a backslash put before a double
\* quote and before a backslash
RECURSIVE quoteWith(_)
quoteWith(text) ==
  IF text = <<>> THEN <<>>
  ELSE (CASE Head(text) = "\n" -> <<"\\", "n">>
          [] Head(text) = "\t" -> <<"\\", "t">>
          [] Head(text) = "\"" -> <<"\\", "\"">>
          [] Head(text) = "\\" -> <<"\\", "\\">>
          [] OTHER -> <<Head(text)>>) \o quoteWith(Tail(text))

Quote(text) == <<"\"">> \o quoteWith(text) \o <<"\"">>
stringContainsCTLByte(u) == \E i \in 1..Len(u) : u[i] \in ControlChars

NoRequest == [url |-> <<>>, ContentLength |-> 0, ContentType |-> "", Body |-> <<>>]

\* github.Client.NewUploadRequest(urlStr, reader, size, mediaType): the URL
\* is parsed, the request built around the reader, req.ContentLength set to
\* size and an empty media type replaced by the default.  Body is the bytes
\* the reader will produce.
NewUploadRequest(urlStr, stream, size, mediaType) ==
  IF stringContainsCTLByte(urlStr)
    THEN [req |-> NoRequest,
          err |-> <<"parse ">> \o Quote(urlStr)
                    \o <<": ", "net/url: invalid control character in URL">>]
    ELSE [req |-> [url |-> urlStr, ContentLength |-> size,
                   ContentType |-> IF mediaType = "" THEN "application/octet-stream"
                                   ELSE mediaType,
                   Body |-> stream],
          err |-> NilError]

\* net/http writing the request body.  With ContentLength 0 and a body the
\* length counts as unknown and the body is sent as it comes.  Otherwise
\* ContentLength bytes at most are sent, the rest of the body is read and
\* dropped, and a body of another length than ContentLength is an error of
\* the write (the text is that of the HTTP/1.1 writer; over HTTP/2 such a
\* body is an error as well, under another text).  uploadReleaseAsset
\* compares no lengths itself.  Both of its callers declare the length of
\* the body, so a publish takes the first branch only.
transportWrite(req) ==
  LET n == Len(req.Body)
  IN  IF req.ContentLength = 0 \/ req.ContentLength = n
        THEN [err |-> NilError, sent |-> req.Body, read |-> req.Body]
        ELSE [err |-> <<"http: ContentLength=">> \o Itoa(req.ContentLength)
                        \o <<" with Body length ">> \o Itoa(n),
              sent |-> SubSeq(req.Body, 1, Min(n, req.ContentLength)),
              read |-> req.Body]

\* url.Error, which http.Client.Do wraps an error of the transport in
urlError(req, err) == <<"Post", " ">> \o Quote(req.url) \o <<": ">> \o err

\* http.StatusCreated
StatusCreated == 201

\* http.StatusText
StatusText(code) ==
  CASE code = 200 -> "OK"
    [] code = 201 -> "Created"
    [] code = 202 -> "Accepted"
    [] code = 422 -> "Unprocessable Entity"
    [] code = 502 -> "Bad Gateway"
    [] OTHER -> ""

\* response bodies: a JSON object with one member, or something else
JSONObject(key, value) == <<"{", "\"", key, "\"", ":">> \o value \o <<"}">>
JSONString(s) == <<"\"", s, "\"">>
BodyAsset == JSONObject("id", <<"7">>)
BodyMessage == JSONObject("message", JSONString("Validation Failed"))
BodyHTML == <<"<html>", "Bad Gateway", "</html>">>
BodyEmpty == <<>>

\* encoding/json on a body: its one member, when it is an object
IsJSONObject(body) ==
  /\ Len(body) \in {7, 9}
  /\ body[1] = "{" /\ body[2] = "\"" /\ body[4] = "\"" /\ body[5] = ":"
  /\ body[Len(body)] = "}"
  /\ Len(body) = 9 => (body[6] = "\"" /\ body[8] = "\"")
MemberKey(body) == body[3]
MemberValue(body) == IF Len(body) = 9 THEN body[7] ELSE body[6]
JSONMember(body, key) ==
  IF IsJSONObject(body) /\ MemberKey(body) = key THEN MemberValue(body) ELSE ""

\* the zero github.ReleaseAsset
NoAsset == [ID |-> ""]

\* json.NewDecoder(resp.Body).Decode(asset); io.EOF counts as success
decodeAsset(body) ==
  IF body = <<>> THEN [asset |-> NoAsset, err |-> NilError]
  ELSE IF IsJSONObject(body)
    THEN [asset |-> [ID |-> JSONMember(body, "id")], err |-> NilError]
  ELSE [asset |-> NoAsset,
        err |-> <<"invalid character ", "'<'", " looking for beginning of value">>]

\* github.CheckResponse: 202 is an AcceptedError, any other 2xx is fine,
\* everything else an ErrorResponse whose text carries the message member
\* of the body
CheckResponse(req, status, body) ==
  IF status = 202
    THEN <<"job scheduled on GitHub side; try again later">>
  ELSE IF 200 <= status /\ status <= 299
    THEN NilError
  ELSE <<"POST", " ">> \o req.url \o <<": ">> \o Itoa(status)
         \o <<" ", JSONMember(body, "message"), " ", "[]">>

\* what the network and the hosting service do with one request
Statuses == {200, 201, 202, 422, 502}
Bodies == {BodyAsset, BodyMessage, BodyHTML, BodyEmpty}
Answers == [fault : BOOLEAN, status : Statuses, body : Bodies]

NoResponse == [StatusCode |-> 0, Body |-> <<>>]

\* r.s.github.Do(ctx, req, asset): the request is sent and the response
\* checked and decoded into asset; Do closes the response body before it
\* returns, so nothing of it is left to read.  stored is the body of the
\* asset the service created (it creates one when it answers 201), read the
\* bytes taken from the reader.
githubDo(req, answer) ==
  LET w == transportWrite(req)
      check == CheckResponse(req, answer.status, answer.body)
      dec == decodeAsset(answer.body)
      created == answer.status = StatusCreated
      resp == [StatusCode |-> answer.status, Body |-> <<>>]
  IN  IF answer.fault
        THEN [resp |-> NoResponse, asset |-> NoAsset, read |-> <<>>, stored |-> <<>>,
              created |-> FALSE,
              err |-> urlError(req, <<"connection refused">>)]
      ELSE IF w.err # NilError
        THEN [resp |-> NoResponse, asset |-> NoAsset, read |-> w.read, stored |-> <<>>,
              created |-> FALSE, err |-> urlError(req, w.err)]
      ELSE IF check # NilError
        THEN [resp |-> resp, asset |-> NoAsset, read |-> w.read,
              stored |-> IF created THEN w.sent ELSE <<>>, created |-> created,
              err |-> check]
      ELSE [resp |-> resp, asset |-> dec.asset, read |-> w.read,
            stored |-> IF created THEN w.sent ELSE <<>>, created |-> created,
            err |-> dec.err]

\* io.ReadAll(resp.Body)
ReadAll(body) == body

\* uploadReleaseAsset after Do has returned without error
checkCreated(do) ==
  IF do.resp.StatusCode # StatusCreated
    THEN [asset |-> NoAsset,
          err |-> <<"upload failed with status ">> \o Itoa(do.resp.StatusCode)
                    \o <<" ", StatusText(do.resp.StatusCode), ": ">>
                    \o ReadAll(do.resp.Body)]
    ELSE [asset |-> do.asset, err |-> NilError]

NoDo == [resp |-> NoResponse, asset |-> NoAsset, read |-> <<>>, stored |-> <<>>,
         created |-> FALSE, err |-> NilError]

\* uploadReleaseAsset(ctx, relID, assetName, reader, size)
uploadReleaseAsset(assetName, stream, size, answer) ==
  LET new == NewUploadRequest(uploadURL(assetName), stream, size,
                              TypeByExtension(Ext(assetName)))
      do == githubDo(new.req, answer)
      out == checkCreated(do)
  IN  IF new.err # NilError
        THEN [asset |-> NoAsset, read |-> <<>>, stored |-> <<>>, created |-> FALSE,
              err |-> <<"creating upload request: ">> \o new.err]
      ELSE IF do.err # NilError
        THEN [asset |-> NoAsset, read |-> do.read, stored |-> do.stored,
              created |-> do.created,
              err |-> <<"performing upload request: ">> \o do.err]
      ELSE [asset |-> out.asset, read |-> do.read, stored |-> do.stored,
            created |-> do.created, err |-> out.err]

(***************************************************************************)
(* One call of uploadReleaseAsset, step by step, on an input chosen at the *)
(* start: the asset name, the bytes the reader produces, the declared      *)
(* size, and what the network and the hosting service answer.              *)
(***************************************************************************)
MaxStreamLen == 2

StreamBytes == {97}
AssetNames ==
  {<<"g", "o", ".", "z", "i", "p">>, <<"g", "o", ".", "t", "x", "t">>,
   <<"g", "o">>, <<"g", "o", "\n">>}
\* The declared size is the number of bytes the reader produces, as at
\* both call sites: stat.Size() of the closed archive with the file opened
\* on it (release.go:85), and lenChecksum with the text of that length
\* (release.go:96-98).  Neither reader is empty.
UploadInputs ==
  {[name |-> n, stream |-> s, size |-> Len(s), answer |-> a] :
     n \in AssetNames, s \in SeqsUpTo(StreamBytes, MaxStreamLen) \ {<<>>},
     a \in Answers}

NoInput ==
  [name |-> <<>>, stream |-> <<>>, size |-> 0,
   answer |-> [fault |-> FALSE, status |-> 0, body |-> <<>>]]
NoNew == [req |-> NoRequest, err |-> NilError]
NoOut == [asset |-> NoAsset, err |-> NilError]

UploadAtRest ==
  /\ apc = "idle"
  /\ ain = NoInput
  /\ anew = NoNew
  /\ ado = NoDo
  /\ aout = NoOut

InitUpload ==
  /\ apc = "new"
  /\ ain \in UploadInputs
  /\ anew = NoNew
  /\ ado = NoDo
  /\ aout = NoOut

\* release.go:161-167
UploadNewRequest ==
  /\ apc = "new"
  /\ LET new == NewUploadRequest(uploadURL(ain.name), ain.stream, ain.size,
                                 TypeByExtension(Ext(ain.name)))
     IN  /\ anew' = new
         /\ IF new.err # NilError
              THEN /\ aout' = [asset |-> NoAsset,
                               err |-> <<"creating upload request: ">> \o new.err]
                   /\ apc' = "returned"
              ELSE /\ apc' = "do"
                   /\ UNCHANGED aout
  /\ UNCHANGED <<ain, ado>>

\* release.go:170-174
UploadDo ==
  /\ apc = "do"
  /\ LET do == githubDo(anew.req, ain.answer)
     IN  /\ ado' = do
         /\ IF do.err # NilError
              THEN /\ aout' = [asset |-> NoAsset,
                               err |-> <<"performing upload request: ">> \o do.err]
                   /\ apc' = "returned"
              ELSE /\ apc' = "check"
                   /\ UNCHANGED aout
  /\ UNCHANGED <<ain, anew>>

\* release.go:177-183
UploadCheckCreated ==
  /\ apc = "check"
  /\ aout' = checkCreated(ado)
  /\ apc' = "returned"
  /\ UNCHANGED <<ain, anew, ado>>

varsUpload == <<apc, ain, anew, ado, aout>>

(***************************************************************************)
(*                       PUBLISHING A BINARY                               *)
(***************************************************************************)
(* UploadReleaseBinary, step by step.  Every call that can fail either     *)
(* succeeds or fails; a failing step returns the wrapped error, and the    *)
(* deferred calls registered so far run, last registered first.            *)
(***************************************************************************)
lenChecksum == 64

MaxBinLen == 1
BinBytes == {0, 97, 255}
\* info.Name() of the binary and the suffix of the entry inside the archive
BinaryNames ==
  {[infoName |-> <<"g", "o">>, suffix |-> <<>>],
   [infoName |-> <<"g", "o", ".", "e", "x", "e">>, suffix |-> <<".", "e", "x", "e">>]}
PublishInputs ==
  {[content |-> c, infoName |-> n.infoName, suffix |-> n.suffix] :
     c \in SeqsUpTo(BinBytes, MaxBinLen), n \in BinaryNames}
NoBinary == [content |-> <<>>, infoName |-> <<>>, suffix |-> <<>>]

NoFile == [exists |-> FALSE, bytes |-> <<>>]
\* the zip.Writer: whether Close has run, whether the entry is in the
\* writer's directory, whether its local header has been written, and the
\* bytes copied into the entry
NoWriter == [closed |-> FALSE, dir |-> FALSE, entry |-> FALSE, copied |-> <<>>]

\* the file a zip.Writer without an entry leaves: the end of central
\* directory record alone
zipEmpty == <<80, 75, 5, 6, 0, 0>>

\* the file a zip.Writer leaves whose CreateHeader failed in writeHeader:
\* the entry is in the directory already, so Close writes its central
\* header and an end record that counts one entry, after no local header
zipDirectoryOnly(name) ==
  <<80, 75, 1, 2, 8, 0, 8, 0, Len(BytesOf(name))>> \o BytesOf(name)
    \o <<80, 75, 5, 6, 1, 1>>

\* zw.Close(): a second Close writes nothing (it returns an error); the
\* first writes the archive of what the writer holds
zwClose(zw, file, name) ==
  IF zw.closed THEN file
  ELSE [file EXCEPT !.bytes =
          IF zw.entry THEN zipArchive(name, zw.copied)
          ELSE IF zw.dir THEN zipDirectoryOnly(name)
          ELSE zipEmpty]

\* os.Remove(tmpPath)
osRemove(file) == NoFile

\* the deferred calls of a returning function, last registered first
RECURSIVE runDeferred(_, _, _, _)
runDeferred(stack, zw, file, entryName) ==
  IF stack = <<>> THEN file
  ELSE LET call == stack[Len(stack)]
           rest == SubSeq(stack, 1, Len(stack) - 1)
       IN  IF call = "zw.Close"
             THEN runDeferred(rest, [zw EXCEPT !.closed = TRUE],
                              zwClose(zw, file, entryName), entryName)
           ELSE IF call = "os.Remove"
             THEN runDeferred(rest, zw, osRemove(file), entryName)
           ELSE runDeferred(rest, zw, file, entryName)

RECURSIVE Reverse(_)
Reverse(q) == IF q = <<>> THEN <<>> ELSE Append(Reverse(Tail(q)), q[1])

\* fh.Name = r.name + suffix
entryName == RepoName \o bin.suffix
\* zipName := info.Name() + ".zip"
zipName == bin.infoName \o <<".", "z", "i", "p">>
\* checksumName := fmt.Sprintf("%s_checksum_sha256.txt", info.Name())
checksumName ==
  bin.infoName \o <<"_", "c", "h", "e", "c", "k", "s", "u", "m", "_",
                    "s", "h", "a", "2", "5", "6", ".", "t", "x", "t">>

PublishAtRest ==
  /\ bpc = "idle"
  /\ bin = NoBinary
  /\ btmp = NoFile
  /\ bzw = NoWriter
  /\ bdefer = <<>>
  /\ bhash = <<>>
  /\ bsum = <<>>
  /\ bsize = 0
  /\ bassets = <<>>
  /\ berr = NilError
  /\ btrail = <<>>

InitPublish ==
  /\ bpc = "open"
  /\ bin \in PublishInputs
  /\ btmp = NoFile
  /\ bzw = NoWriter
  /\ bdefer = <<>>
  /\ bhash = <<>>
  /\ bsum = <<>>
  /\ bsize = 0
  /\ bassets = <<>>
  /\ berr = NilError
  /\ btrail = <<>>

\* UploadReleaseBinary returns err: its deferred calls run
returnPublish(step, err) ==
  /\ bpc' = "returned"
  /\ berr' = err
  /\ btmp' = runDeferred(bdefer, bzw, btmp, entryName)
  /\ bdefer' = <<>>
  /\ btrail' = btrail \o <<step>> \o Reverse(bdefer) \o <<"return">>

\* zipBinary returns err, its deferred zw.Close and tmp.Close run on the
\* writer zw, and UploadReleaseBinary returns on it (release.go:61-63)
returnFromZip(step, zipDeferred, zw, err) ==
  /\ bpc' = "returned"
  /\ berr' = <<"zipping binary: ">> \o err
  /\ btmp' = runDeferred(bdefer, zw, runDeferred(zipDeferred, zw, btmp, entryName),
                         entryName)
  /\ bzw' = IF zipDeferred = <<>> THEN zw ELSE [zw EXCEPT !.closed = TRUE]
  /\ bdefer' = <<>>
  /\ btrail' = btrail \o <<step>> \o Reverse(zipDeferred) \o Reverse(bdefer)
                 \o <<"return">>

\* release.go:52-56
OpenBinary ==
  /\ bpc = "open"
  /\ \E ok \in BOOLEAN :
       IF ok
         THEN /\ bpc' = "createTemp"
              /\ bdefer' = Append(bdefer, "src.Close")
              /\ btrail' = Append(btrail, "r.Open")
              /\ UNCHANGED <<btmp, berr>>
         ELSE returnPublish("r.Open failed", <<"opening file: ", "file does not exist">>)
  /\ UNCHANGED <<bin, bzw, bhash, bsum, bsize, bassets>>

\* release.go:109-113
CreateTemp ==
  /\ bpc = "createTemp"
  /\ \E ok \in BOOLEAN :
       IF ok
         THEN /\ bpc' = "createHeader"
              /\ btmp' = [exists |-> TRUE, bytes |-> <<>>]
              /\ btrail' = Append(btrail, "os.CreateTemp")
              /\ UNCHANGED <<bzw, bdefer, berr>>
         ELSE returnFromZip("os.CreateTemp failed", <<>>, bzw,
                            <<"creating temp zip file: ", "no space left on device">>)
  /\ UNCHANGED <<bin, bhash, bsum, bsize, bassets>>

\* release.go:116-136; zip.FileInfoHeader never returns an error.
\* zw.CreateHeader puts the entry into the writer's directory and then
\* writes the local header; when that fails the entry stays in the
\* directory and nothing has been written
CreateHeader ==
  /\ bpc = "createHeader"
  /\ \E ok \in BOOLEAN :
       IF ok
         THEN /\ bpc' = "copy"
              /\ bzw' = [bzw EXCEPT !.dir = TRUE, !.entry = TRUE]
              /\ btrail' = Append(btrail, "zw.CreateHeader")
              /\ UNCHANGED <<btmp, bdefer, berr>>
         ELSE returnFromZip("zw.CreateHeader failed", <<"tmp.Close", "zw.Close">>,
                            [bzw EXCEPT !.dir = TRUE],
                            <<"creating zip entry: ", "zip: FileHeader.Name too long">>)
  /\ UNCHANGED <<bin, bhash, bsum, bsize, bassets>>

\* release.go:139-141: io.Copy ends at the end of the binary, or on a read
\* error after some of its bytes
CopyBinary ==
  /\ bpc = "copy"
  /\ \/ /\ bpc' = "closeZip"
        /\ bzw' = [bzw EXCEPT !.copied = bin.content]
        /\ btrail' = Append(btrail, "io.Copy")
        /\ UNCHANGED <<btmp, bdefer, berr>>
     \/ \E k \in 0..Len(bin.content) :
          returnFromZip("io.Copy failed", <<"tmp.Close", "zw.Close">>,
                        [bzw EXCEPT !.copied = SubSeq(bin.content, 1, k)],
                        <<"writing to zip: ", "input/output error">>)
  /\ UNCHANGED <<bin, bhash, bsum, bsize, bassets>>

\* release.go:144-148 and 64: zw.Close writes the archive; on success
\* zipBinary returns the path and os.Remove is deferred.  When the write
\* fails nothing reaches the file.
CloseZip ==
  /\ bpc = "closeZip"
  /\ \E ok \in BOOLEAN :
       IF ok
         THEN /\ bpc' = "openTemp"
              /\ btmp' = zwClose(bzw, btmp, entryName)
              /\ bzw' = [bzw EXCEPT !.closed = TRUE]
              /\ bdefer' = Append(bdefer, "os.Remove")
              /\ btrail' = btrail \o <<"zw.Close", "zw.Close", "tmp.Close">>
              /\ UNCHANGED berr
         ELSE returnFromZip("zw.Close failed", <<"tmp.Close", "zw.Close">>,
                            [bzw EXCEPT !.closed = TRUE],
                            <<"closing zip writer: ", "no space left on device">>)
  /\ UNCHANGED <<bin, bhash, bsum, bsize, bassets>>

\* release.go:66-70
OpenTemp ==
  /\ bpc = "openTemp"
  /\ \E ok \in BOOLEAN :
       IF ok
         THEN /\ bpc' = "stat"
              /\ bdefer' = Append(bdefer, "fi.Close")
              /\ btrail' = Append(btrail, "os.Open")
              /\ UNCHANGED <<btmp, berr>>
         ELSE returnPublish("os.Open failed",
                            <<"opening temporary zip: ", "too many open files">>)
  /\ UNCHANGED <<bin, bzw, bhash, bsum, bsize, bassets>>

\* release.go:73-76
StatTemp ==
  /\ bpc = "stat"
  /\ \E ok \in BOOLEAN :
       IF ok
         THEN /\ bpc' = "uploadZip"
              /\ bsize' = Len(btmp.bytes)
              /\ btrail' = Append(btrail, "fi.Stat")
              /\ UNCHANGED <<btmp, bdefer, berr>>
         ELSE /\ returnPublish("fi.Stat failed",
                               <<"stating temporary zip: ", "input/output error">>)
              /\ UNCHANGED bsize
  /\ UNCHANGED <<bin, bzw, bhash, bsum, bassets>>

\* the assets the hosting service holds after an upload
withAsset(assets, name, out) ==
  IF out.created THEN Append(assets, [name |-> name, body |-> out.stored]) ELSE assets

\* release.go:79-87: the archive is uploaded through io.TeeReader(fi, hash),
\* which writes to hash every byte read from the file
UploadZip ==
  /\ bpc = "uploadZip"
  /\ \E answer \in Answers :
       LET out == uploadReleaseAsset(zipName, btmp.bytes, bsize, answer)
       IN  /\ bhash' = out.read
           /\ bassets' = withAsset(bassets, zipName, out)
           /\ IF out.err # NilError
                THEN returnPublish("upload archive failed",
                                   <<"uploading ">> \o Quote(zipName) \o <<": ">>
                                     \o out.err)
                ELSE /\ bpc' = "sum"
                     /\ btrail' = Append(btrail, "upload archive")
                     /\ UNCHANGED <<btmp, bdefer, berr>>
  /\ UNCHANGED <<bin, bzw, bsum, bsize>>

\* a slip: the digest taken before the archive has been uploaded
SumHashEarly ==
  /\ bpc = "uploadZip"
  /\ bsum = <<>>
  /\ bsum' = EncodeToString(Sum256(bhash))
  /\ btrail' = Append(btrail, "hash.Sum")
  /\ UNCHANGED <<bpc, bin, btmp, bzw, bdefer, bhash, bsize, bassets, berr>>

\* release.go:90: checksumContent := hex.EncodeToString(hash.Sum(nil))
SumHash ==
  /\ bpc = "sum"
  /\ bsum' = EncodeToString(Sum256(bhash))
  /\ bpc' = "uploadChecksum"
  /\ btrail' = Append(btrail, "hash.Sum")
  /\ UNCHANGED <<bin, btmp, bzw, bdefer, bhash, bsize, bassets, berr>>

\* release.go:93-102: strings.NewReader(checksumContent) is uploaded with the
\* declared size lenChecksum
UploadChecksum ==
  /\ bpc = "uploadChecksum"
  /\ \E answer \in Answers :
       LET out == uploadReleaseAsset(checksumName, BytesOf(bsum), lenChecksum, answer)
       IN  /\ bassets' = withAsset(bassets, checksumName, out)
           /\ IF out.err # NilError
                THEN returnPublish("upload checksum failed",
                                   <<"uploading ">> \o Quote(checksumName)
                                     \o <<": ">> \o out.err)
                ELSE returnPublish("upload checksum", NilError)
  /\ UNCHANGED <<bin, bzw, bhash, bsum, bsize>>

varsPublish ==
  <<bpc, bin, btmp, bzw, bdefer, bhash, bsum, bsize, bassets, berr, btrail>>

(***************************************************************************)
(*                    EXTERNAL-COMMAND WRAPPERS (gorepo)                   *)
(***************************************************************************)
(* The text a command prints is the sequence of its pieces: the lines, cut *)
(* further where the code looks inside them, and the white space between   *)
(* and around them.  A path is the sequence of the pieces of its names     *)
(* with "/" between the names.  An error of this component is a record:    *)
(* an ExecError, an error made from a text, or either of them wrapped in   *)
(* the texts of ctx; NilExec is the nil error.                             *)
(***************************************************************************)
WhiteSpace == {"\n", " "}

\* bytes.TrimSpace(out): out without its leading and trailing white space
RECURSIVE TrimLeft(_)
TrimLeft(out) ==
  IF out # <<>> /\ Head(out) \in WhiteSpace THEN TrimLeft(Tail(out)) ELSE out

RECURSIVE TrimRight(_)
TrimRight(out) ==
  IF out # <<>> /\ out[Len(out)] \in WhiteSpace
    THEN TrimRight(SubSeq(out, 1, Len(out) - 1))
    ELSE out

TrimSpace(out) == TrimRight(TrimLeft(out))

\* strings.Join(words, " "), each word the sequence of its pieces
RECURSIVE Join(_)
Join(words) ==
  IF words = <<>> THEN <<>>
  ELSE IF Len(words) = 1 THEN words[1]
  ELSE words[1] \o <<" ">> \o Join(Tail(words))

\* ghrepo.ExecError{Cmd, Out, Err}; NilExec is the nil error
ExecError(cmd, out, err) ==
  [type |-> "ExecError", Cmd |-> cmd, Out |-> out, Err |-> err, ctx |-> <<>>]
NilExec == [type |-> "nil", Cmd |-> <<>>, Out |-> <<>>, Err |-> NoErr, ctx |-> <<>>]

\* errors.New(text), and fmt.Errorf with a format that has no %w
errorsNew(text) ==
  [type |-> "error", Cmd |-> <<>>, Out |-> <<>>, Err |-> NoErr, ctx |-> text]

\* fmt.Errorf(context + "%w", err)
Errorf(context, err) == [err EXCEPT !.ctx = <<context>> \o err.ctx]

\* ExecCommand(ctx, name, args...): cmd.CombinedOutput() has printed raw and
\* returned exit (NoErr when the command succeeded)
ExecCommand(words, raw, exit) ==
  IF exit # NoErr
    THEN [out |-> <<>>, err |-> ExecError(Join(words), TrimSpace(raw), exit)]
    ELSE [out |-> raw, err |-> NilExec]

\* errors.As(err, &execErr) with execErr of type ghrepo.ExecError: true for
\* an ExecError, wrapped or not
errorsAs(err) == err.type = "ExecError"

\* const noPackagesMsg of GoVet
GoVetNoPackagesMsg ==
  <<"go: warning: \"./...\" matched no packages", "\n", "no packages to vet">>

\* The grave accent, a character that a string of this module cannot hold,
\* is the piece Grave.
Grave == "U+0060"

\* const noPackagesMsg of GolangCILint
GolangCILintNoPackagesMsg ==
  <<"level=error msg=\"Running error: context loading failed: no go files to analyze: running ",
    Grave, "go mod tidy", Grave, " may solve the problem\"">>

\* What each wrapper returns, given the error err of its ExecCommand call.
GoModInit(err) == err
GoGetAll(err) == err
GoModTidy(err) == err
GoModVendor(err) == err
Gofumpt(err) == err
GoFix(err) == IF err # NilExec THEN err ELSE NilExec

GoVet(err) ==
  IF err # NilExec
    THEN IF errorsAs(err) /\ err.Out = GoVetNoPackagesMsg
           THEN NilExec
           ELSE err
    ELSE NilExec

\* the if statement of GolangCILint has no return after its inner test, so
\* a failure that is not the no-packages message falls through to the
\* final return nil
GolangCILint(err) ==
  IF err # NilExec
    THEN IF errorsAs(err) /\ err.Out = GolangCILintNoPackagesMsg
           THEN NilExec
           ELSE NilExec
    ELSE NilExec

\* the command line each wrapper passes to ExecCommand
commandOf(w) ==
  LET words ==
        CASE w = "GoModInit" -> <<"go", "mod", "init">>
          [] w = "GoGetAll" -> <<"go", "get", "-u", "all">>
          [] w = "GoModTidy" -> <<"go", "mod", "tidy">>
          [] w = "GoModVendor" -> <<"go", "mod", "vendor">>
          [] w = "Gofumpt" -> <<"gofumpt", "-extra", "-w", ".">>
          [] w = "GoFix" -> <<"go", "fix", "./...">>
          [] w = "GoVet" -> <<"go", "vet", "./...">>
          [] w = "GolangCILint" -> <<"golangci-lint", "run", "./...">>
  IN  [i \in 1..Len(words) |-> <<words[i]>>]

returnOf(w, err) ==
  CASE w = "GoModInit" -> GoModInit(err)
    [] w = "GoGetAll" -> GoGetAll(err)
    [] w = "GoModTidy" -> GoModTidy(err)
    [] w = "GoModVendor" -> GoModVendor(err)
    [] w = "Gofumpt" -> Gofumpt(err)
    [] w = "GoFix" -> GoFix(err)
    [] w = "GoVet" -> GoVet(err)
    [] w = "GolangCILint" -> GolangCILint(err)

Wrappers ==
  {"GoModInit", "GoGetAll", "GoModTidy", "GoModVendor", "Gofumpt", "GoFix",
   "GoVet", "GolangCILint"}

\* UpdateDependencies calls three wrappers in turn and stops at the first
\* that returns an error; every other operation is one wrapper
UpdateDependencies == <<"GoGetAll", "GoModTidy", "GoModVendor">>

Operations == Wrappers \cup {"UpdateDependencies"}

wrappersOf(op) == IF op = "UpdateDependencies" THEN UpdateDependencies ELSE <<op>>

\* what a command may print and how it may end
RawOutputs ==
  { <<>>,
    <<"\n">>,
    <<"main.go:3:2: unreachable code", "\n">>,
    GoVetNoPackagesMsg \o <<"\n">>,
    GolangCILintNoPackagesMsg \o <<"\n">>,
    <<" ">> \o GoVetNoPackagesMsg }

Exits == {NoErr, "exit status 1", "context canceled"}

\* ---- Goimports: the tree it walks ----
\* filepath.Base(path): the pieces after the last "/"
RECURSIVE Base(_)
Base(path) ==
  IF \E i \in 1..Len(path) : path[i] = "/" THEN Base(Tail(path)) ELSE path

\* path lies below the directory d
Under(path, d) ==
  /\ Len(path) > Len(d) + 1
  /\ SubSeq(path, 1, Len(d)) = d
  /\ path[Len(d) + 1] = "/"

File(path) == [path |-> path, dir |-> FALSE]
Dir(path) == [path |-> path, dir |-> TRUE]

\* the trees walked, each in the order afero.Walk visits a tree: sorted
\* by name, every directory before what it holds
Trees ==
  { <<Dir(<<".">>)>>,
    <<Dir(<<".">>),
      Dir(<<".", "git">>), File(<<".", "git", "/", "x", ".", "go">>),
      File(<<"README", ".", "md">>),
      File(<<"a", ".", "go">>), File(<<"b", ".", "go">>),
      Dir(<<"vendor">>), File(<<"vendor", "/", "v", ".", "go">>)>> }

\* the callback has answered filepath.SkipDir for a directory above the
\* i-th entry, so the walk does not visit the entry
Skipped(tree, i) ==
  \E j \in 1..(i - 1) :
    /\ tree[j].dir
    /\ Base(tree[j].path) \in {<<"vendor">>, <<".", "git">>}
    /\ Under(tree[i].path, tree[j].path)

\* ---- GoTestCover: the report it reads ----
coverFile == <<"cover", ".", "out">>

\* a line longer than bufio.MaxScanTokenSize
LongLine == "a line of more than 65536 bytes"

Digits == {"0", "1", "2", "3", "4", "5", "6", "7", "8", "9"}
\* the pieces that are one character
Chars == Digits \cup {".", "x", "%", "\t", " "}

\* what go tool cover -func may print
CoverOutputs ==
  { <<>>,
    <<"main.go:3:", "\t", "main", "\t", "1", "0", "0", ".", "0", "%", "\n",
      "total:", "\t", "\t", "(statements)", "\t", "8", "5", ".", "3", "%", "\n">>,
    <<"total:", "\t", "(statements)", "\t", "8", "5", "x", "3", "%", "\n">>,
    <<"total:", "\t", "(statements)", "\t", "8", "5", "3", "%">>,
    <<"total:", " ", "(statements)", "\t", "8", "5", ".", "3", "%", "\n">>,
    <<LongLine, "\n", "total:", "\t", "(statements)", "\t", "8", "5", ".", "3", "%", "\n">> }

\* the tokens bufio.Scanner yields with the default ScanLines: the text
\* between the newlines, a last line without a newline included
RECURSIVE ScanLines(_, _)
ScanLines(out, line) ==
  IF out = <<>> THEN (IF line = <<>> THEN <<>> ELSE <<line>>)
  ELSE IF Head(out) = "\n" THEN <<line>> \o ScanLines(Tail(out), <<>>)
  ELSE ScanLines(Tail(out), Append(line, Head(out)))

\* strings.HasPrefix(line, "total:")
HasPrefixTotal(line) == line # <<>> /\ line[1] = "total:"

\* getTotalLine(sc): Scan stops at a token that is too long, and sc.Err()
\* then reports it
RECURSIVE getTotalLine(_)
getTotalLine(lines) ==
  IF lines = <<>>
    THEN [line |-> <<>>,
          err |-> errorsNew(<<"no 'total:' line found in coverage report">>)]
  ELSE IF Head(lines) = <<LongLine>>
    THEN [line |-> <<>>,
          err |-> Errorf("scanning coverage output: ",
                         errorsNew(<<"bufio.Scanner: token too long">>))]
  ELSE IF HasPrefixTotal(Head(lines))
    THEN [line |-> Head(lines), err |-> NilExec]
  ELSE getTotalLine(Tail(lines))

\* the number of tabs that line has from position i on
RECURSIVE Tabs(_, _)
Tabs(line, i) ==
  IF i <= Len(line) /\ line[i] = "\t" THEN 1 + Tabs(line, i + 1) ELSE 0

\* reCover.FindStringSubmatch(line) for
\* ^total:\t+\(statements\)\t+([0-9]+.[0-9])%$ : the dot is not escaped
\* and stands for any one character
reCover(line) ==
  LET t1 == Tabs(line, 2)
      p == 2 + t1
      t2 == Tabs(line, p + 1)
      q == p + 1 + t2
      n == Len(line)
  IN  [ok |-> /\ HasPrefixTotal(line)
              /\ t1 >= 1
              /\ p <= n
              /\ line[p] = "(statements)"
              /\ t2 >= 1
              /\ n - q >= 3
              /\ line[n] = "%"
              /\ line[n - 1] \in Digits
              /\ line[n - 2] \in Chars
              /\ \A i \in q..(n - 3) : line[i] \in Digits,
       group |-> IF q <= n THEN SubSeq(line, q, n - 1) ELSE <<>>]

\* strconv.Atoi of a text of digits
RECURSIVE Atoi(_)
Atoi(text) ==
  IF text = <<>> THEN 0
  ELSE 10 * Atoi(SubSeq(text, 1, Len(text) - 1))
         + (CHOOSE d \in 0..9 : Itoa(d) = <<text[Len(text)]>>)

\* strconv.ParseFloat(text, 64) of a text that reCover has matched; the
\* value is given in tenths
ParseFloat(text) ==
  LET n == Len(text)
  IN  IF text[n - 1] = "."
        THEN [ok |-> TRUE,
              tenths |-> 10 * Atoi(SubSeq(text, 1, n - 2)) + Atoi(<<text[n]>>)]
      ELSE IF text[n - 1] \in Digits
        THEN [ok |-> TRUE, tenths |-> 10 * Atoi(text)]
      ELSE [ok |-> FALSE, tenths |-> 0]

\* GoTestCover after go tool cover has printed out without an error: the
\* coverage in tenths and the error
parseCoverage(out) ==
  LET total == getTotalLine(ScanLines(out, <<>>))
      match == reCover(total.line)
      value == ParseFloat(match.group)
  IN  IF total.err # NilExec THEN [coverage |-> 0, err |-> total.err]
      ELSE IF ~match.ok
        THEN [coverage |-> 0,
              err |-> errorsNew(<<"failed to parse go coverage line ">>
                                  \o Quote(total.line))]
      ELSE IF ~value.ok
        THEN [coverage |-> 0,
              err |-> errorsNew(<<"parsing coverage ">> \o Quote(match.group))]
      ELSE [coverage |-> value.tenths, err |-> NilExec]

AllOperations == Operations \cup {"Goimports", "GoTestCover"}

ExecAtRest ==
  /\ xpc = "rest"
  /\ xop = ""
  /\ xtree = <<>>
  /\ xstep = 0
  /\ xrunning = {}
  /\ xeg = NilExec
  /\ xres = <<>>
  /\ xfiles = {}
  /\ xcover = 0
  /\ xerr = NilExec

\* an operation has been called on a Repository
InitExec ==
  /\ xpc = "called"
  /\ xop \in AllOperations
  /\ xtree \in (IF xop = "Goimports" THEN Trees ELSE {<<>>})
  /\ xstep = 1
  /\ xrunning = {}
  /\ xeg = NilExec
  /\ xres = <<>>
  /\ xfiles = {}
  /\ xcover = 0
  /\ xerr = NilExec

\* The next wrapper of the operation runs its command and returns; the
\* operation returns with it unless it is UpdateDependencies and has a
\* wrapper left to call after a nil error.
RunWrapper ==
  /\ xpc = "called"
  /\ xop \in Operations
  /\ \E raw \in RawOutputs, exit \in Exits :
       LET w == wrappersOf(xop)[xstep]
           res == ExecCommand(commandOf(w), raw, exit)
           err == returnOf(w, res.err)
       IN  /\ xres' = Append(xres, res)
           /\ IF err = NilExec /\ xstep < Len(wrappersOf(xop))
                THEN /\ xstep' = xstep + 1
                     /\ UNCHANGED <<xpc, xerr>>
                ELSE /\ xpc' = "done"
                     /\ xerr' = err
                     /\ UNCHANGED xstep
  /\ UNCHANGED <<xop, xtree, xrunning, xeg, xfiles, xcover>>

\* Goimports: afero.Walk calls the function for the next entry it visits.
\* An error of the walk is returned at once, whatever goroutines run; the
\* directories vendor and .git are skipped with all they hold; for a .go
\* file eg.Go starts a goroutine.
GoimportsVisit ==
  /\ xpc = "called"
  /\ xop = "Goimports"
  /\ xstep <= Len(xtree)
  /\ LET entry == xtree[xstep]
     IN  IF Skipped(xtree, xstep)
           THEN /\ xstep' = xstep + 1
                /\ UNCHANGED <<xpc, xrunning, xerr>>
           ELSE \E walkErr \in BOOLEAN :
                  IF walkErr
                    THEN /\ xpc' = "done"
                         /\ xerr' = errorsNew(<<"lstat: permission denied">>)
                         /\ UNCHANGED <<xstep, xrunning>>
                    ELSE /\ xstep' = xstep + 1
                         /\ xrunning' =
                              IF ~entry.dir /\ Ext(Base(entry.path)) = <<".", "go">>
                                THEN xrunning \cup {entry.path}
                                ELSE xrunning
                         /\ UNCHANGED <<xpc, xerr>>
  /\ UNCHANGED <<xop, xtree, xeg, xres, xfiles, xcover>>

\* Goimports: one of the goroutines runs goimports -w on its file; the
\* errgroup keeps the first error
GoimportsCommand ==
  /\ xop = "Goimports"
  /\ \E path \in xrunning, raw \in RawOutputs, exit \in Exits :
       LET res == ExecCommand(<<<<"goimports">>, <<"-w">>, path>>, raw, exit)
       IN  /\ xres' = Append(xres, res)
           /\ xeg' = IF xeg = NilExec THEN res.err ELSE xeg
           /\ xrunning' = xrunning \ {path}
  /\ UNCHANGED <<xpc, xop, xtree, xstep, xfiles, xcover, xerr>>

\* Goimports: the walk is over; eg.Wait() returns once every goroutine has
\* returned
GoimportsWait ==
  /\ xpc = "called"
  /\ xop = "Goimports"
  /\ xstep > Len(xtree)
  /\ xrunning = {}
  /\ xpc' = "done"
  /\ xerr' = xeg
  /\ UNCHANGED <<xop, xtree, xstep, xrunning, xeg, xres, xfiles, xcover>>

\* GoTestCover: go test with a cover profile; the deferred r.Remove takes
\* the profile away when the function returns
GoTestCoverTest ==
  /\ xpc = "called"
  /\ xop = "GoTestCover"
  /\ xstep = 1
  /\ \E raw \in RawOutputs, exit \in Exits, written \in BOOLEAN :
       LET res == ExecCommand(<<<<"go">>, <<"test">>, <<"./...">>, <<"-race">>,
                                <<"-cover">>, <<"-covermode=atomic">>,
                                <<"-coverprofile=">> \o coverFile,
                                <<"-v">>, <<"-shuffle=on">>>>, raw, exit)
       IN  /\ xres' = Append(xres, res)
           /\ IF res.err # NilExec
                THEN /\ xpc' = "done"
                     /\ xerr' = res.err
                     /\ xfiles' = xfiles \ {coverFile}
                     /\ UNCHANGED xstep
                ELSE /\ xstep' = 2
                     /\ xfiles' = IF written THEN xfiles \cup {coverFile} ELSE xfiles
                     /\ UNCHANGED <<xpc, xerr>>
  /\ UNCHANGED <<xop, xtree, xrunning, xeg, xcover>>

\* GoTestCover: go tool cover -func, the total line of its report and the
\* number in it
GoTestCoverFunc ==
  /\ xpc = "called"
  /\ xop = "GoTestCover"
  /\ xstep = 2
  /\ \E raw \in CoverOutputs, exit \in Exits :
       LET res == ExecCommand(<<<<"go">>, <<"tool">>, <<"cover">>,
                                <<"-func=">> \o coverFile>>, raw, exit)
           parsed == parseCoverage(res.out)
       IN  /\ xres' = Append(xres, res)
           /\ IF res.err # NilExec
                THEN /\ xerr' = Errorf("getting go test coverage: ", res.err)
                     /\ xcover' = 0
                ELSE /\ xerr' = parsed.err
                     /\ xcover' = parsed.coverage
  /\ xpc' = "done"
  /\ xfiles' = xfiles \ {coverFile}
  /\ UNCHANGED <<xop, xtree, xstep, xrunning, xeg>>

varsExec == <<xpc, xop, xtree, xstep, xrunning, xeg, xres, xfiles, xcover, xerr>>

(***************************************************************************)
(*            REPOSITORY HANDLES AND THE RECORDS THEY POINT TO             *)
(***************************************************************************)
(* s.repos and r.github hold pointers to github.Repository values.  Here   *)
(* a pointer is the name of a place in heap, and heap gives the record     *)
(* each place holds.  The service has cached the records of two            *)
(* repositories of one owner; each of two handles is opened for a          *)
(* repository of that owner and then used by its own goroutine.            *)
(***************************************************************************)
NilPointer == "nil"
Pointers == {"rec1", "rec2", "rec3", "rec4"}

Handles == {"h1", "h2"}
HandleOwner == "acme"
HandleNames == {"app", "lib", "tmp"}

\* s.repos after PrefetchOrgRepositories(ctx, "acme") has cached app and lib
PrefetchedPointers ==
  [o \in {HandleOwner} |-> [n \in {"app", "lib"} |-> IF n = "app" THEN "rec1" ELSE "rec2"]]

\* the body of getRepo under s.mu, on a map of pointers
getRepo(cache, owner, name) ==
  IF owner \in DOMAIN cache
    THEN IF name \in DOMAIN cache[owner] THEN cache[owner][name] ELSE NilPointer
    ELSE NilPointer

\* cmp.Or(a, b): the first argument that is not the zero value
cmpOr(a, b) == IF a # NilPointer THEN a ELSE b

\* the place of the record that Repositories.Get allocates for a handle
PointerFromGet(h) == IF h = "h1" THEN "rec3" ELSE "rec4"

\* the calls made on the handles
HandleCalls ==
  {MkOp("SetTopics", t, NoUpdate) : t \in {<<"go">>, <<"cli">>}}
    \cup {MkOp("Edit", <<>>, MkRepo(<<>>, <<"go">>, <<>>)),
          MkOp("SetDescription", <<>>, MkRepo(<<"tool">>, <<>>, <<>>))}

ShareAtRest ==
  /\ heap = [p \in Pointers |-> NoUpdate]
  /\ hrepos = [o \in {} |-> [n \in {} |-> NilPointer]]
  /\ hgithub = [h \in Handles |-> NilPointer]
  /\ hmuGithub = [h \in Handles |-> Free]
  /\ hpc = [h \in Handles |-> "closed"]
  /\ hop = [h \in Handles |-> NoCall]
  /\ hupdated = [h \in Handles |-> <<>>]

\* the service holds the prefetched records; no handle is open yet
InitShare ==
  /\ heap = [p \in Pointers |->
               IF p = "rec1" THEN MkRepo(<<"tool">>, <<"go">>, <<FALSE>>) ELSE NoUpdate]
  /\ hrepos = PrefetchedPointers
  /\ hgithub = [h \in Handles |-> NilPointer]
  /\ hmuGithub = [h \in Handles |-> Free]
  /\ hpc = [h \in Handles |-> "closed"]
  /\ hop = [h \in Handles |-> NoCall]
  /\ hupdated = [h \in Handles |-> <<>>]

\* NewRepository(ctx, owner, name) without the onGithub option: r.github is
\* the pointer getRepo returns; when that is nil the record is fetched with
\* Repositories.Get into a place of its own
OpenHandle(h, name) ==
  /\ hpc[h] = "closed"
  /\ LET cached == cmpOr(NilPointer, getRepo(hrepos, HandleOwner, name))
     IN  IF cached # NilPointer
           THEN /\ hgithub' = [hgithub EXCEPT ![h] = cached]
                /\ UNCHANGED heap
           ELSE /\ hgithub' = [hgithub EXCEPT ![h] = PointerFromGet(h)]
                /\ heap' = [heap EXCEPT ![PointerFromGet(h)] = MkRepo(<<>>, <<>>, <<FALSE>>)]
  /\ hpc' = [hpc EXCEPT ![h] = "idle"]
  /\ UNCHANGED <<hrepos, hmuGithub, hop, hupdated>>

\* the goroutine of the handle calls one of its methods
HandleCall(h, o) ==
  /\ hpc[h] = "idle"
  /\ hpc' = [hpc EXCEPT ![h] = "lock"]
  /\ hop' = [hop EXCEPT ![h] = o]
  /\ UNCHANGED <<heap, hrepos, hgithub, hmuGithub, hupdated>>

\* r.muGithub.Lock(): the lock of this handle
HandleLock(h) ==
  /\ hpc[h] = "lock"
  /\ hmuGithub[h] = Free
  /\ hmuGithub' = [hmuGithub EXCEPT ![h] = h]
  /\ hpc' = [hpc EXCEPT ![h] = "body"]
  /\ UNCHANGED <<heap, hrepos, hgithub, hop, hupdated>>

\* SetTopics from its comparison to the answer of ReplaceAllTopics
HandleSetTopics(h) ==
  /\ hpc[h] = "body"
  /\ hop[h].name = "SetTopics"
  /\ IF slicesEqual(heap[hgithub[h]].Topics, hop[h].topics)
       THEN /\ hpc' = [hpc EXCEPT ![h] = "unlock"]
            /\ UNCHANGED hupdated
       ELSE \E ok \in BOOLEAN :
              IF ok
                THEN /\ hupdated' = [hupdated EXCEPT ![h] =
                           ServerReplaceAllTopics(heap[hgithub[h]], hop[h].topics).Topics]
                     /\ hpc' = [hpc EXCEPT ![h] = "store"]
                ELSE /\ hpc' = [hpc EXCEPT ![h] = "unlock"]
                     /\ UNCHANGED hupdated
  /\ UNCHANGED <<heap, hrepos, hgithub, hmuGithub, hop>>

\* r.github.Topics = updated: a write through the pointer
HandleStoreTopics(h) ==
  /\ hpc[h] = "store"
  /\ heap' = [heap EXCEPT ![hgithub[h]].Topics = hupdated[h]]
  /\ hpc' = [hpc EXCEPT ![h] = "unlock"]
  /\ UNCHANGED <<hrepos, hgithub, hmuGithub, hop, hupdated>>

\* Edit, and SetDescription which calls it: r.github = repo replaces the
\* pointer of the handle and writes no record that existed before
HandleEdit(h) ==
  /\ hpc[h] = "body"
  /\ hop[h].name \in {"Edit", "SetDescription"}
  /\ LET hc == hasChanges(PtrTo(heap[hgithub[h]]), PtrTo(hop[h].update))
     IN  IF hc.panic \/ ~hc.value
           THEN UNCHANGED <<heap, hgithub>>
           ELSE \E ok \in BOOLEAN :
                  IF ok
                    THEN /\ heap' = [heap EXCEPT ![PointerFromGet(h)] =
                                       ServerEdit(heap[hgithub[h]], hop[h].update)]
                         /\ hgithub' = [hgithub EXCEPT ![h] = PointerFromGet(h)]
                    ELSE UNCHANGED <<heap, hgithub>>
  /\ hpc' = [hpc EXCEPT ![h] = "unlock"]
  /\ UNCHANGED <<hrepos, hmuGithub, hop, hupdated>>

\* the deferred r.muGithub.Unlock() and the return
HandleReturn(h) ==
  /\ hpc[h] = "unlock"
  /\ hmuGithub' = [hmuGithub EXCEPT ![h] = Free]
  /\ hpc' = [hpc EXCEPT ![h] = "idle"]
  /\ hop' = [hop EXCEPT ![h] = NoCall]
  /\ hupdated' = [hupdated EXCEPT ![h] = <<>>]
  /\ UNCHANGED <<heap, hrepos, hgithub>>

varsShare == <<heap, hrepos, hgithub, hmuGithub, hpc, hop, hupdated>>

(***************************************************************************)
(*                           SPECIFICATIONS                                *)
(***************************************************************************)
vars == <<varsBranch, varsMeta, varsCache, varsUpload, varsPublish, varsExec, varsShare>>

NextBranch ==
  \/ GetDefaultBranch
       /\ UNCHANGED <<varsMeta, varsCache, varsUpload, varsPublish, varsExec, varsShare>>
  \/ CheckoutDefault
       /\ UNCHANGED <<varsMeta, varsCache, varsUpload, varsPublish, varsExec, varsShare>>
  \/ Commit
       /\ UNCHANGED <<varsMeta, varsCache, varsUpload, varsPublish, varsExec, varsShare>>
  \/ Pull
       /\ UNCHANGED <<varsMeta, varsCache, varsUpload, varsPublish, varsExec, varsShare>>
  \/ Push
       /\ UNCHANGED <<varsMeta, varsCache, varsUpload, varsPublish, varsExec, varsShare>>

NextMeta ==
  \/ \E g \in Goroutines, o \in Calls : Call(g, o)
       /\ UNCHANGED <<varsBranch, varsCache, varsUpload, varsPublish, varsExec, varsShare>>
  \/ \E g \in Goroutines : Lock(g)
       /\ UNCHANGED <<varsBranch, varsCache, varsUpload, varsPublish, varsExec, varsShare>>
  \/ \E g \in Goroutines : SetTopicsBody(g)
       /\ UNCHANGED <<varsBranch, varsCache, varsUpload, varsPublish, varsExec, varsShare>>
  \/ \E g \in Goroutines : SetTopicsStore(g)
       /\ UNCHANGED <<varsBranch, varsCache, varsUpload, varsPublish, varsExec, varsShare>>
  \/ \E g \in Goroutines : EditBody(g)
       /\ UNCHANGED <<varsBranch, varsCache, varsUpload, varsPublish, varsExec, varsShare>>
  \/ \E g \in Goroutines : SetDescriptionBody(g)
       /\ UNCHANGED <<varsBranch, varsCache, varsUpload, varsPublish, varsExec, varsShare>>
  \/ \E g \in Goroutines : DescriptionBody(g)
       /\ UNCHANGED <<varsBranch, varsCache, varsUpload, varsPublish, varsExec, varsShare>>
  \/ \E g \in Goroutines : TopicsBody(g)
       /\ UNCHANGED <<varsBranch, varsCache, varsUpload, varsPublish, varsExec, varsShare>>
  \/ \E g \in Goroutines : ArchivedBody(g)
       /\ UNCHANGED <<varsBranch, varsCache, varsUpload, varsPublish, varsExec, varsShare>>
  \/ \E g \in Goroutines : Return(g)
       /\ UNCHANGED <<varsBranch, varsCache, varsUpload, varsPublish, varsExec, varsShare>>

NextCache ==
  \/ \E p \in Prefetchers, c \in PrefetchCalls :
       PrefetchCall(p, c)
       /\ UNCHANGED <<varsBranch, varsMeta, varsUpload, varsPublish, varsExec, varsShare>>
  \/ \E p \in Prefetchers : PrefetchList(p)
       /\ UNCHANGED <<varsBranch, varsMeta, varsUpload, varsPublish, varsExec, varsShare>>
  \/ \E p \in Prefetchers : AddReposEmpty(p)
       /\ UNCHANGED <<varsBranch, varsMeta, varsUpload, varsPublish, varsExec, varsShare>>
  \/ \E p \in Prefetchers : AddReposLock(p)
       /\ UNCHANGED <<varsBranch, varsMeta, varsUpload, varsPublish, varsExec, varsShare>>
  \/ \E p \in Prefetchers : AddReposInsert(p)
       /\ UNCHANGED <<varsBranch, varsMeta, varsUpload, varsPublish, varsExec, varsShare>>
  \/ \E p \in Prefetchers : AddReposUnlock(p)
       /\ UNCHANGED <<varsBranch, varsMeta, varsUpload, varsPublish, varsExec, varsShare>>
  \/ \E l \in Lookups, o \in LookupOwners, n \in LookupNames :
       GetRepoLock(l, o, n)
       /\ UNCHANGED <<varsBranch, varsMeta, varsUpload, varsPublish, varsExec, varsShare>>
  \/ \E l \in Lookups : GetRepoRead(l)
       /\ UNCHANGED <<varsBranch, varsMeta, varsUpload, varsPublish, varsExec, varsShare>>
  \/ \E l \in Lookups : GetRepoUnlock(l)
       /\ UNCHANGED <<varsBranch, varsMeta, varsUpload, varsPublish, varsExec, varsShare>>

NextUpload ==
  \/ UploadNewRequest /\ UNCHANGED <<varsBranch, varsMeta, varsCache, varsPublish, varsExec, varsShare>>
  \/ UploadDo /\ UNCHANGED <<varsBranch, varsMeta, varsCache, varsPublish, varsExec, varsShare>>
  \/ UploadCheckCreated /\ UNCHANGED <<varsBranch, varsMeta, varsCache, varsPublish, varsExec, varsShare>>

NextPublish ==
  \/ OpenBinary /\ UNCHANGED <<varsBranch, varsMeta, varsCache, varsUpload, varsExec, varsShare>>
  \/ CreateTemp /\ UNCHANGED <<varsBranch, varsMeta, varsCache, varsUpload, varsExec, varsShare>>
  \/ CreateHeader /\ UNCHANGED <<varsBranch, varsMeta, varsCache, varsUpload, varsExec, varsShare>>
  \/ CopyBinary /\ UNCHANGED <<varsBranch, varsMeta, varsCache, varsUpload, varsExec, varsShare>>
  \/ CloseZip /\ UNCHANGED <<varsBranch, varsMeta, varsCache, varsUpload, varsExec, varsShare>>
  \/ OpenTemp /\ UNCHANGED <<varsBranch, varsMeta, varsCache, varsUpload, varsExec, varsShare>>
  \/ StatTemp /\ UNCHANGED <<varsBranch, varsMeta, varsCache, varsUpload, varsExec, varsShare>>
  \/ UploadZip /\ UNCHANGED <<varsBranch, varsMeta, varsCache, varsUpload, varsExec, varsShare>>
  \/ SumHash /\ UNCHANGED <<varsBranch, varsMeta, varsCache, varsUpload, varsExec, varsShare>>
  \/ UploadChecksum /\ UNCHANGED <<varsBranch, varsMeta, varsCache, varsUpload, varsExec, varsShare>>

StartBranch == InitBranch /\ MetaAtRest /\ CacheAtRest /\ UploadAtRest /\ PublishAtRest /\ ExecAtRest /\ ShareAtRest
StartMeta == InitMeta /\ BranchAtRest /\ CacheAtRest /\ UploadAtRest /\ PublishAtRest /\ ExecAtRest /\ ShareAtRest
StartCache == InitCache /\ BranchAtRest /\ MetaAtRest /\ UploadAtRest /\ PublishAtRest /\ ExecAtRest /\ ShareAtRest
StartUpload == InitUpload /\ BranchAtRest /\ MetaAtRest /\ CacheAtRest /\ PublishAtRest /\ ExecAtRest /\ ShareAtRest
StartPublish == InitPublish /\ BranchAtRest /\ MetaAtRest /\ CacheAtRest /\ UploadAtRest /\ ExecAtRest /\ ShareAtRest

NextExec ==
  \/ RunWrapper
       /\ UNCHANGED <<varsBranch, varsMeta, varsCache, varsUpload, varsPublish, varsShare>>
  \/ GoimportsVisit
       /\ UNCHANGED <<varsBranch, varsMeta, varsCache, varsUpload, varsPublish, varsShare>>
  \/ GoimportsCommand
       /\ UNCHANGED <<varsBranch, varsMeta, varsCache, varsUpload, varsPublish, varsShare>>
  \/ GoimportsWait
       /\ UNCHANGED <<varsBranch, varsMeta, varsCache, varsUpload, varsPublish, varsShare>>
  \/ GoTestCoverTest
       /\ UNCHANGED <<varsBranch, varsMeta, varsCache, varsUpload, varsPublish, varsShare>>
  \/ GoTestCoverFunc
       /\ UNCHANGED <<varsBranch, varsMeta, varsCache, varsUpload, varsPublish, varsShare>>

StartExec ==
  InitExec /\ BranchAtRest /\ MetaAtRest /\ CacheAtRest /\ UploadAtRest /\ PublishAtRest
    /\ ShareAtRest

NextShare ==
  \/ \E h \in Handles, n \in HandleNames : OpenHandle(h, n)
       /\ UNCHANGED <<varsBranch, varsMeta, varsCache, varsUpload, varsPublish, varsExec>>
  \/ \E h \in Handles, o \in HandleCalls : HandleCall(h, o)
       /\ UNCHANGED <<varsBranch, varsMeta, varsCache, varsUpload, varsPublish, varsExec>>
  \/ \E h \in Handles : HandleLock(h)
       /\ UNCHANGED <<varsBranch, varsMeta, varsCache, varsUpload, varsPublish, varsExec>>
  \/ \E h \in Handles : HandleSetTopics(h)
       /\ UNCHANGED <<varsBranch, varsMeta, varsCache, varsUpload, varsPublish, varsExec>>
  \/ \E h \in Handles : HandleStoreTopics(h)
       /\ UNCHANGED <<varsBranch, varsMeta, varsCache, varsUpload, varsPublish, varsExec>>
  \/ \E h \in Handles : HandleEdit(h)
       /\ UNCHANGED <<varsBranch, varsMeta, varsCache, varsUpload, varsPublish, varsExec>>
  \/ \E h \in Handles : HandleReturn(h)
       /\ UNCHANGED <<varsBranch, varsMeta, varsCache, varsUpload, varsPublish, varsExec>>

StartShare ==
  InitShare /\ BranchAtRest /\ MetaAtRest /\ CacheAtRest /\ UploadAtRest /\ PublishAtRest
    /\ ExecAtRest

SpecBranch == StartBranch /\ [][NextBranch]_vars
SpecMeta == StartMeta /\ [][NextMeta]_vars
SpecCache == StartCache /\ [][NextCache]_vars
SpecUpload == StartUpload /\ [][NextUpload]_vars
SpecPublish == StartPublish /\ [][NextPublish]_vars
SpecExec == StartExec /\ [][NextExec]_vars
SpecShare == StartShare /\ [][NextShare]_vars

(***************************************************************************)
(*                               CLAIMS                                    *)
(***************************************************************************)
\* getDefaultBranch has been called; the store it read; what it returned
Answered == lookup # NoLookup
Seen == lookup.refs
Answer == lookup.ret

\* C10: whenever origin/HEAD is a symbolic reference to an existing
\* remote-tracking branch refs/remotes/origin/B, getDefaultBranch returns the
\* local branch reference refs/heads/B and no error, whatever HEAD and the
\* local branches are.
C10_OriginHeadWins ==
  \A b \in RemoteBranches :
    ( /\ Answered
      /\ Seen[OriginHEAD] = SymRef(NewRemoteReferenceName("origin", b))
      /\ Seen[NewRemoteReferenceName("origin", b)] = HashRef )
    => Answer = [name |-> <<"refs", "heads", b>>, err |-> NoErr]

\* origin/HEAD names dev while main and master both exist locally and HEAD
\* is on master: the resolver has answered
C10_Witness ==
  /\ Answered
  /\ Seen[OriginHEAD] = SymRef(NewRemoteReferenceName("origin", "dev"))
  /\ Seen[NewRemoteReferenceName("origin", "dev")] = HashRef
  /\ Seen[Main] = HashRef
  /\ Seen[Master] = HashRef
  /\ Seen[HEAD] = SymRef(Master)

\* C11: in a repository that has neither origin/HEAD nor a local HEAD
\* reference, and so in one with no references at all, getDefaultBranch
\* returns refs/heads/main and no error.
C11_NoReferencesGivesMain ==
  ( /\ Answered
    /\ Seen[OriginHEAD] = Absent
    /\ Seen[HEAD] = Absent )
  => Answer = [name |-> <<"refs", "heads", "main">>, err |-> NoErr]

\* the resolver has answered main for the repository without any reference
C11_Witness ==
  /\ Answered
  /\ \A n \in RefNames : Seen[n] = Absent
  /\ Answer = [name |-> <<"refs", "heads", "main">>, err |-> NoErr]

\* HEAD exists: it is detached, or names a local branch that exists
HeadExists ==
  \/ Seen[HEAD] = HashRef
  \/ \E b \in LocalBranches :
       /\ Seen[HEAD] = SymRef(<<"refs", "heads", b>>)
       /\ Seen[<<"refs", "heads", b>>] = HashRef

\* C12: in a repository without origin/HEAD whose local HEAD exists,
\* getDefaultBranch returns main whenever main exists, master when master
\* exists and main does not, and the error "no default branch found" when
\* neither exists.
C12_ProbesMainThenMaster ==
  (Answered /\ Seen[OriginHEAD] = Absent /\ HeadExists) =>
    /\ Seen[Main] = HashRef
         => Answer = [name |-> <<"refs", "heads", "main">>, err |-> NoErr]
    /\ (Seen[Main] = Absent /\ Seen[Master] = HashRef)
         => Answer = [name |-> <<"refs", "heads", "master">>, err |-> NoErr]
    /\ (Seen[Main] = Absent /\ Seen[Master] = Absent)
         => Answer = [name |-> <<>>, err |-> "no default branch found"]

\* HEAD is on dev, main and master both exist, there is no origin/HEAD:
\* the resolver has answered main
C12_Witness ==
  /\ Seen[OriginHEAD] = Absent
  /\ Seen[HEAD] = SymRef(<<"refs", "heads", "dev">>)
  /\ Seen[<<"refs", "heads", "dev">>] = HashRef
  /\ Seen[Main] = HashRef
  /\ Seen[Master] = HashRef
  /\ Answer = [name |-> <<"refs", "heads", "main">>, err |-> NoErr]

\* an error of a lookup that is not "reference not found"
IsFatal(err) == err # NoErr /\ err # ErrReferenceNotFound

\* the lookup of origin/HEAD gave no branch and no fatal error, and the
\* local HEAD exists: the resolver goes on to probe main and master
ReachesProbing ==
  LET o == Reference(Seen, OriginHEAD, TRUE)
  IN  /\ ~IsFatal(o.err)
      /\ o.err = NoErr => ~CutOriginPrefix(refString(o.ref)).ok
      /\ RepoHead(Seen).err = NoErr

\* C16: an error other than "reference not found" from the lookup of
\* origin/HEAD, or from the probe of main, or from the probe of master after
\* main was not found, is what getDefaultBranch returns, with no branch.
C16_FatalLookupErrorAborts ==
  Answered =>
    LET o == Reference(Seen, OriginHEAD, TRUE)
        m == Reference(Seen, Main, TRUE)
        ms == Reference(Seen, Master, TRUE)
    IN  /\ IsFatal(o.err) => Answer = [name |-> <<>>, err |-> o.err]
        /\ (ReachesProbing /\ IsFatal(m.err))
             => Answer = [name |-> <<>>, err |-> m.err]
        /\ (ReachesProbing /\ m.err = ErrReferenceNotFound /\ IsFatal(ms.err))
             => Answer = [name |-> <<>>, err |-> ms.err]

\* no origin/HEAD, HEAD on dev, main missing and master unreadable: the
\* resolver has returned the storage error and no branch
C16_Witness ==
  /\ Seen[OriginHEAD] = Absent
  /\ Seen[HEAD] = SymRef(<<"refs", "heads", "dev">>)
  /\ Seen[<<"refs", "heads", "dev">>] = HashRef
  /\ Seen[Main] = Absent
  /\ Seen[Master] = Broken
  /\ Answer = [name |-> <<>>, err |-> ErrStorage]

\* the update asks for nothing the cached record does not already hold
NothingToChange(update, cached) ==
  \A f \in RepoFields : IsNil(update[f]) \/ update[f] = cached[f]

\* C2 (as claimed): an Edit whose every present field equals the cached
\* record's returns success, sends nothing to the hosting service and leaves
\* the cached record as it was.
C2_NoOpEditSucceeds ==
  ( /\ last.op.name = "Edit"
    /\ NothingToChange(last.op.update, last.res.before) )
  => /\ last.res.err = NoErr
     /\ last.res.live = 0
     /\ github = last.res.before

\* C3 (as claimed): an Edit with a present field that differs from the
\* cached record sends exactly one update to the hosting service and, when
\* that succeeds, the cached record is the record the service answered with.
C3_ChangedEditCallsOnce ==
  ( /\ last.op.name = "Edit"
    /\ ~NothingToChange(last.op.update, last.res.before) )
  => /\ last.res.live = 1
     /\ (last.res.err = NoErr => github = last.res.served)

IsDistinct(q) == \A i, j \in 1..Len(q) : i # j => q[i] # q[j]

\* C4: right after SetTopics(T) has returned, for T of distinct strings:
\* if it returned success, Topics() yields exactly T, in order; and if T was
\* the cached list already, no request was sent to the hosting service.
C4_TopicRoundTrip ==
  ( /\ last.op.name = "SetTopics"
    /\ IsDistinct(last.op.topics) )
  => /\ (last.res.err = NoErr => TopicsOf(github) = last.op.topics)
     /\ (last.res.before.Topics = last.op.topics => last.res.live = 0)

\* SetTopics(<<"cli", "go">>) has just replaced the cached list <<"go", "cli">>
\* through one request
C4_Witness ==
  /\ last.op.name = "SetTopics"
  /\ last.op.topics = <<"cli", "go">>
  /\ last.res.before.Topics = <<"go", "cli">>
  /\ last.res.err = NoErr
  /\ last.res.live = 1
  /\ github.Topics = <<"cli", "go">>

(***************************************************************************)
(* The prefetching goroutines that returned nil.                           *)
(***************************************************************************)
Listed(owner, name) ==
  \E i \in 1..Len(RemoteRepos(owner)) : GetName(RemoteRepos(owner)[i]) = name

RecordOf(owner, name) ==
  LET all == RemoteRepos(owner)
  IN  all[CHOOSE i \in 1..Len(all) : GetName(all[i]) = name]

DisjointOwners ==
  \A p, q \in Prefetchers : p # q => pcall[p].owner # pcall[q].owner

(***************************************************************************)
(* C5: when the prefetch calls, for pairwise disjoint owners, have all     *)
(* returned without error, every lookup made afterwards for an owner that  *)
(* was prefetched and a name the service listed for that owner returns     *)
(* exactly that owner's record of that name.                               *)
(***************************************************************************)
C5_DisjointPrefetchesKeepRecords ==
  \A l \in Lookups :
    (/\ lpc[l] \in {"unlock", "returned"}
     /\ lgot[l].after = Prefetchers
     /\ DisjointOwners
     /\ \E p \in Prefetchers : pcall[p].owner = lkey[l].owner
     /\ Listed(lkey[l].owner, lkey[l].name))
    => lgot[l].rec = RecordOf(lkey[l].owner, lkey[l].name)

(***************************************************************************)
(* C6: once a prefetch call for an owner has returned without error, the   *)
(* cache holds, under that owner and the record's name, every record the   *)
(* service listed for that owner, whichever of the two prefetch functions  *)
(* was called.                                                             *)
(***************************************************************************)
C6_KeyedByPrefetchedOwner ==
  \A p \in ReturnedOk :
    \A i \in 1..Len(RemoteRepos(pcall[p].owner)) :
      LET rec == RemoteRepos(pcall[p].owner)[i]
      IN  getRepoLocked(repos, pcall[p].owner, GetName(rec)) = rec

(***************************************************************************)
(* The lower-case hexadecimal text of a byte sequence, written out         *)
(* independently of EncodeToString.                                        *)
(***************************************************************************)
LowerHexDigits == <<48, 49, 50, 51, 52, 53, 54, 55, 56, 57, 97, 98, 99, 100, 101, 102>>
LowerHexText(bytes) ==
  [i \in 1..(2 * Len(bytes)) |->
     IF i % 2 = 1 THEN LowerHexDigits[(bytes[(i + 1) \div 2] \div 16) + 1]
     ELSE LowerHexDigits[(bytes[i \div 2] % 16) + 1]]

(***************************************************************************)
(* C1: when UploadReleaseBinary has returned nil, the hosting service      *)
(* holds two assets, the archive and then the checksum; the checksum's     *)
(* body is 64 bytes, the lower-case hexadecimal SHA-256 digest of the      *)
(* archive asset's body, and it is not the digest of the binary's bytes.   *)
(***************************************************************************)
C1_ChecksumIsDigestOfArchive ==
  (bpc = "returned" /\ berr = NilError) =>
    /\ Len(bassets) = 2
    /\ bassets[1].name = zipName
    /\ bassets[2].name = checksumName
    /\ Len(bassets[2].body) = 64
    /\ bassets[2].body = LowerHexText(Sum256(bassets[1].body))
    /\ bassets[2].body # LowerHexText(Sum256(bin.content))

C1_Witness ==
  /\ bpc = "returned"
  /\ berr = NilError
  /\ bin.content = <<255>>
  /\ bin.suffix = <<".", "e", "x", "e">>
  /\ Len(bassets) = 2
  /\ bassets[1].body = zipArchive(<<"g", "o", ".", "e", "x", "e">>, <<255>>)
  /\ Len(bassets[2].body) = 64

(***************************************************************************)
(* C7: whenever UploadReleaseBinary has returned after its temporary       *)
(* archive file was created, on success or on any failure, that file no    *)
(* longer exists.                                                          *)
(***************************************************************************)
TempWasCreated == \E i \in 1..Len(btrail) : btrail[i] = "os.CreateTemp"

C7_TempArchiveRemoved ==
  (bpc = "returned" /\ TempWasCreated) => ~btmp.exists

(***************************************************************************)
(* C9: uploadReleaseAsset returns without error only when the hosting      *)
(* service answered 201, and whenever the service answered with another    *)
(* status it returns an error whose text contains the response body.       *)
(***************************************************************************)
ServiceAnswered == ado.resp # NoResponse

C9_OnlyCreatedSucceeds ==
  apc = "returned" =>
    /\ aout.err = NilError => (ServiceAnswered /\ ain.answer.status = StatusCreated)
    /\ (ServiceAnswered /\ ain.answer.status # StatusCreated) =>
         (aout.err # NilError /\ Contains(aout.err, ain.answer.body))

(***************************************************************************)
(* What a lookup made now returns for the records of one page.             *)
(***************************************************************************)
PageIsCached(owner, page) ==
  LET rs == ListPage(owner, page, maxPerPage).repos
  IN  \A i \in 1..Len(rs) : getRepoLocked(repos, owner, GetName(rs[i])) = rs[i]

(***************************************************************************)
(* C13: a prefetch that has returned nil went on until the page that       *)
(* reports no further page, and a lookup returns every record the service  *)
(* listed for the owner; a prefetch that has returned the error of a       *)
(* failed page request made no request after it, and a lookup returns the  *)
(* records of every page fetched before the failure.                       *)
(***************************************************************************)
C13_PagesKeptUntilFailure ==
  \A p \in Prefetchers :
    ppc[p] = "returned" =>
      LET owner == pcall[p].owner
      IN  /\ perr[p] = NoErr =>
               /\ plist[p].next = 0
               /\ \A i \in 1..Len(RemoteRepos(owner)) :
                    getRepoLocked(repos, owner, GetName(RemoteRepos(owner)[i]))
                      = RemoteRepos(owner)[i]
          /\ perr[p] # NoErr =>
               /\ perr[p] = ErrRemote
               /\ plist[p] = IF ppage[p] = 1 THEN NoList
                             ELSE ListPage(owner, ppage[p] - 1, maxPerPage)
               /\ \A k \in 1..(ppage[p] - 1) : PageIsCached(owner, k)

(***************************************************************************)
(* The goroutines between r.muGithub.Lock() and the deferred Unlock, and   *)
(* the field of a record that a read method returns.                       *)
(***************************************************************************)
InsideLock == {g \in Goroutines : tpc[g] \in {"body", "store", "unlock"}}

FieldRead(name, rec) ==
  IF name = "Description" THEN <<DescriptionOf(rec)>>
  ELSE IF name = "Topics" THEN TopicsOf(rec)
  ELSE rec.Archived

(***************************************************************************)
(* C14: at most one goroutine is inside the repository lock, and it is the *)
(* holder of the lock; when a call has returned, by a return or by a       *)
(* panic, the lock is free; and a read that has returned a value took      *)
(* every field from one record, the one the handle holds when the read     *)
(* returns.                                                                *)
(***************************************************************************)
C14_OneInsideLockAndWholeReads ==
  /\ Cardinality(InsideLock) <= 1
  /\ \A g \in Goroutines : g \in InsideLock <=> muGithub = g
  /\ last # NoLast =>
       /\ muGithub = Free
       /\ (last.op.name \in {"Description", "Topics", "Archived"}
           /\ last.res.err = NoErr)
            => /\ last.res.before = github
               /\ last.res.out = FieldRead(last.op.name, github)

\* Topics has returned the cached list while another goroutine waits for
\* the lock to replace it
C14_Witness ==
  /\ last.op.name = "Topics"
  /\ last.res.out = <<"go">>
  /\ \E g \in Goroutines :
       /\ tpc[g] = "lock"
       /\ top[g].name = "SetTopics"
       /\ top[g].topics = <<"cli">>

(***************************************************************************)
(* The place of a call in the trail of a publish (0 when it was not made), *)
(* the calls that failed and the calls that run when the function returns. *)
(***************************************************************************)
First(call) ==
  IF \E i \in 1..Len(btrail) : btrail[i] = call
    THEN CHOOSE i \in 1..Len(btrail) :
           btrail[i] = call /\ \A j \in 1..(i - 1) : btrail[j] # call
    ELSE 0

Before(a, b) == 0 < First(a) /\ First(a) < First(b)

FailedCalls ==
  {"r.Open failed", "os.CreateTemp failed", "zw.CreateHeader failed", "io.Copy failed",
   "zw.Close failed", "os.Open failed", "fi.Stat failed", "upload archive failed",
   "upload checksum failed"}
ReturningCalls == {"zw.Close", "tmp.Close", "fi.Close", "os.Remove", "src.Close", "return"}

Made(call) == First(call) > 0

(***************************************************************************)
(* C15: in a publish the archive is written and its file closed before the *)
(* size is read, the size is read before the archive upload is attempted,  *)
(* the digest is taken only after the archive upload has succeeded and the *)
(* checksum upload attempted only after the digest; a checksum asset       *)
(* exists only after the archive asset of the same publish; and after a    *)
(* failed call nothing runs but the deferred calls and the return.         *)
(***************************************************************************)
C15_PublishStepsInOrder ==
  /\ Made("fi.Stat") => (Before("zw.Close", "tmp.Close") /\ Before("tmp.Close", "fi.Stat"))
  /\ Made("upload archive") => Before("fi.Stat", "upload archive")
  /\ Made("upload archive failed") => Before("fi.Stat", "upload archive failed")
  /\ Made("hash.Sum") => Before("upload archive", "hash.Sum")
  /\ Made("upload checksum") => Before("hash.Sum", "upload checksum")
  /\ Made("upload checksum failed") => Before("hash.Sum", "upload checksum failed")
  /\ (\E i \in 1..Len(bassets) : bassets[i].name = checksumName) =>
       /\ Len(bassets) = 2
       /\ bassets[1].name = zipName
       /\ bassets[2].name = checksumName
       /\ Made("upload archive")
  /\ \A i \in 1..Len(btrail) :
       btrail[i] \in FailedCalls =>
         /\ bpc = "returned"
         /\ berr # NilError
         /\ \A j \in (i + 1)..Len(btrail) : btrail[j] \in ReturningCalls

\* a publish has gone through every step and returned nil
C15_Witness ==
  /\ bpc = "returned"
  /\ berr = NilError
  /\ Before("io.Copy", "zw.Close")
  /\ Before("fi.Stat", "upload archive")
  /\ Before("upload archive", "hash.Sum")
  /\ Before("hash.Sum", "upload checksum")
  /\ Len(bassets) = 2

\* The output that the wrapper w treats as success: its own no-packages
\* message, for the two wrappers that have one.
NoPackages(w, out) ==
  \/ w = "GoVet" /\ out = GoVetNoPackagesMsg
  \/ w = "GolangCILint" /\ out = GolangCILintNoPackagesMsg

\* the commands of the call that failed with output other than a
\* no-packages message of the operation
FailedCommands ==
  {i \in 1..Len(xres) : xres[i].err # NilExec /\ ~NoPackages(xop, xres[i].err.Out)}

\* C17: when an operation that runs external commands has returned and a
\* command of it failed with output other than the no-packages message
\* that the operation treats as success, the operation has returned the
\* ExecError of a failed command to its caller, wrapped or not.
C17_ExecErrorsPropagate ==
  (xpc = "done" /\ FailedCommands # {})
  => \E i \in FailedCommands : [xerr EXCEPT !.ctx = <<>>] = xres[i].err

\* the places of the records that getRepo can return
CachedPointers ==
  {getRepo(hrepos, HandleOwner, n) : n \in HandleNames} \ {NilPointer}

\* handle h is about to write a record while it holds its own r.muGithub
WritesRecord(h) == hpc[h] = "store" /\ hmuGithub[h] = h

\* C18: no step of a method of a Repository handle (SetTopics, Edit,
\* SetDescription) changes a record that getRepo can return, and two
\* different handles, each holding its own lock, are never about to write
\* the same record.
C18_HandlesLeaveCachedRecordsAlone ==
  /\ [][\A p \in CachedPointers : heap'[p] = heap[p]]_vars
  /\ [](\A h1, h2 \in Handles :
          (h1 # h2 /\ WritesRecord(h1) /\ WritesRecord(h2)) => hgithub[h1] # hgithub[h2])

====
